---- MODULE Spec2Model ----
(***************************************************************************)
(* A model of score, a discrete event simulator (jesse99/score).           *)
(*                                                                         *)
(* The kernel (src/src/simulation.rs) owns the scheduler, the component    *)
(* tree and the store.  Every active component has a worker thread that    *)
(* receives (Event, SimState) pairs on one channel and answers each with   *)
(* an Effector on another.  The kernel thread and the worker threads are   *)
(* the processes of the model; the channels are its queues.                *)
(*                                                                         *)
(* Strings are strings: a path is the component names joined by ".", a     *)
(* store key is the path, a "." and the name the worker gave.              *)
(* Seconds are f64 in the source.  The model draws them from the dyadic    *)
(* rationals num / 2^exp, on which the f64 product with an integral        *)
(* time_units and the cast to i64 are exact.                               *)
(***************************************************************************)
EXTENDS Integers, Sequences, FiniteSets, Bags, TLC

VARIABLES
    components,          \* Simulation.components: Seq of Component, indexed by ComponentID + 1
    event_senders,       \* Simulation.event_senders: per component "None" or the thread behind the channel
    effector_receivers,  \* Simulation.effector_receivers: the same, for the channel back
    config,              \* Simulation.config: time_units, max_secs, num_init_stages
    program,             \* which handlers the user wrote for the threads
    current_time,        \* Simulation.current_time
    exited,              \* Simulation.exited: "None" or the reason
    scheduled,           \* Simulation.scheduled: the BinaryHeap, as a bag of ScheduledEvent
    event_num,           \* Simulation.event_num
    finger_print,        \* Simulation.finger_print: a u64, as four limbs of 16 bits
    store,               \* Simulation.store
    pc,                  \* where the kernel thread is
    stage,               \* init_components: the loop variable i (num_init_stages once the loop is over)
    ids,                 \* dispatch_events: the local ids
    inbox,               \* per component: the (Event, SimState) messages in its channel
    outbox,              \* per component: the Effectors in its channel back
    worker,              \* per component: what its thread holds between receive and send
    error,               \* the panic that ended the kernel thread, "" if none
    pass_store,          \* history: the store when the current dispatch pass began
    popped,              \* history: the entries dispatch_events popped in the current pass
    applied,             \* history: the sorted effects of the last pass, once it has applied them
    printed,             \* what the last pass logged while it applied: <<component, message>>, in order
    init_log,            \* history: per component, the "init k" events sent to it and when
    budget,              \* the non-empty Effectors the workers, and the user's setup, may still produce
    writes,              \* history: the writes a store took by itself, outside a simulation
    ports,               \* a component's OutPort, the Effector its handler fills, and what it called last
    spawned,             \* history: the components that were added with a thread of their own
    edition,             \* Store.edition of a store by itself: a u32, as two limbs of 16 bits
    returned,            \* what the last getter of a store or of an Event returned, or its panic
    held_event           \* the Event a handler holds

vars == <<components, event_senders, effector_receivers, config, program, current_time, exited,
          scheduled, event_num, finger_print, store, pc, stage, ids, inbox, outbox, worker,
          error, pass_store, popped, applied, printed, init_log, budget, writes, ports, spawned,
          edition, returned, held_event>>

-----------------------------------------------------------------------------
(* Bounds of the model *)

\* The components a simulation may hold.
MaxComponents == 3

\* The components a simulation may give a thread of their own.
MaxActive == 2

\* The events of one run that a worker answers with anything but Effector::new().
MaxWork == 3

\* The writes a store is given when it is used by itself.
MaxWrites == 3

-----------------------------------------------------------------------------
(* component.rs, components.rs *)

\* std::usize::MAX in the source; the model only ever compares it for equality.
NO_COMPONENT == -1

ComponentNames == <<"a", "b", "c", "d", "e">>

Component(name, parent) == [name |-> name, parent |-> parent, children |-> <<>>]

Components_new == <<>>

Components_get(cs, id) == cs[id + 1]

Components_is_empty(cs) == Len(cs) = 0

ComponentIDs(cs) == 0 .. (Len(cs) - 1)

RECURSIVE Join(_, _)
Join(names, sep) ==
    IF Len(names) = 0 THEN ""
    ELSE IF Len(names) = 1 THEN names[1]
    ELSE names[1] \o sep \o Join(Tail(names), sep)

RECURSIVE PathNames(_, _)
PathNames(cs, id) ==
    IF id = NO_COMPONENT THEN <<>>
    ELSE PathNames(cs, Components_get(cs, id).parent) \o <<Components_get(cs, id).name>>

Components_full_path(cs, id) == Join(PathNames(cs, id), ".")

\* A check_for_dupes that asserts nothing.
Components_check_for_dupes_not(cs, parent_id, child) == TRUE

\* check_for_dupes: TRUE when the assert passes.
Components_check_for_dupes(cs, parent_id, child) ==
    \A i \in 1 .. Len(Components_get(cs, parent_id).children) :
        Components_get(cs, Components_get(cs, parent_id).children[i]).name # child.name

\* append, once check_for_dupes has passed.
Components_append(cs, id, component, parent) ==
    LET linked == IF parent # NO_COMPONENT
                  THEN [cs EXCEPT ![parent + 1].children = Append(@, id)]
                  ELSE cs
    IN  Append(linked, component)

\* VecDeque::push_back for every id: the deque a depth first search would keep.
workset_push_back(workset, cids) == workset \o cids

\* for child_id in child.children.iter() { workset.push_front(*child_id) }
\* The front of the VecDeque is the head of the sequence.
RECURSIVE workset_push_front(_, _)
workset_push_front(workset, cids) ==
    IF Len(cids) = 0 THEN workset
    ELSE workset_push_front(<<Head(cids)>> \o workset, Tail(cids))

\* find_child: its while loop.  The predicate is the set of the ids it is true
\* of; the answer is Some(id) as <<id>> and None as <<>>.
RECURSIVE find_child_loop(_, _, _)
find_child_loop(cs, workset, predicate) ==
    IF Len(workset) = 0 THEN <<>>
    ELSE LET child_id == workset[Len(workset)]
             popped_back == SubSeq(workset, 1, Len(workset) - 1)
         IN  IF child_id \in predicate THEN <<child_id>>
             ELSE find_child_loop(cs, workset_push_front(popped_back, Components_get(cs, child_id).children),
                                  predicate)

\* Components::find_child
Components_find_child(cs, id, predicate) ==
    find_child_loop(cs, Components_get(cs, id).children, predicate)

-----------------------------------------------------------------------------
(* sim_time.rs, config.rs *)

Time(t) == t

\* An f64 number of seconds: num / 2^exp, or infinity.
Secs(num, exp) == [num |-> num, exp |-> exp, inf |-> FALSE]

INFINITY == [num |-> 1, exp |-> 0, inf |-> TRUE]

\* std::f64::EPSILON = 2^-52
EPSILON == Secs(1, 52)

RECURSIVE Shr(_, _)
Shr(x, k) == IF k = 0 THEN x ELSE Shr(x \div 2, k - 1)

\* (secs * time_units) as i64, for secs >= 0 and finite: the product is exact and the cast truncates.
SecsToTicks(secs, time_units) == Shr(secs.num * time_units, secs.exp)

\* i64::max_value(); the model's integers are 32 bits wide, so the largest of them stands for it.
I64_MAX == 2147483647

Config(time_units, max_secs, num_init_stages) ==
    [time_units |-> time_units, max_secs |-> max_secs, num_init_stages |-> num_init_stages]

-----------------------------------------------------------------------------
(* event.rs *)

NoPayload == [some |-> FALSE, type |-> "", value |-> ""]

Event_new(name) == [name |-> name, port_name |-> "", payload |-> NoPayload]

\* Option::Some(Box::new(payload)), a payload of the given type
Some(type, value) == [some |-> TRUE, type |-> type, value |-> value]

\* Event::with_port
Event_with_port(name, port) == [name |-> name, port_name |-> port, payload |-> NoPayload]

\* Event::with_port_payload
Event_with_port_payload(name, port, payload) == [name |-> name, port_name |-> port, payload |-> payload]

\* The panic of payload_ref and take_payload.
PayloadPanic(self, message, why) ==
    IF message = "" THEN "event " \o self.name \o " (" \o why \o ")"
    ELSE "event " \o self.name \o " " \o message \o " (" \o why \o ")"

\* Event::payload_ref::<T>: the event it leaves, the value it refers to, in a
\* tuple, and the panic it raised, "" if none.
Event_payload_ref(self, T, message) ==
    IF self.payload.some
    THEN IF self.payload.type = T
         THEN [event |-> self, value |-> <<self.payload.value>>, err |-> ""]
         ELSE [event |-> self, value |-> <<>>, err |-> PayloadPanic(self, message, "downcast failed")]
    ELSE [event |-> self, value |-> <<>>, err |-> PayloadPanic(self, message, "missing payload")]

\* A take_payload that copies the value and leaves it in the event.
Event_take_payload_copy(self, T) ==
    IF self.payload.some
    THEN IF self.payload.type = T
         THEN [event |-> self, value |-> <<self.payload.value>>, err |-> ""]
         ELSE [event |-> self, value |-> <<>>, err |-> PayloadPanic(self, "", "downcast failed")]
    ELSE [event |-> self, value |-> <<>>, err |-> PayloadPanic(self, "", "missing payload")]

\* Event::take_payload::<T>: self.payload.take() comes first, so the event is
\* left without a payload whether the downcast succeeds or not.
Event_take_payload(self, T) ==
    LET taken == [self EXCEPT !.payload = NoPayload]
    IN  IF self.payload.some
        THEN IF self.payload.type = T
             THEN [event |-> taken, value |-> <<self.payload.value>>, err |-> ""]
             ELSE [event |-> taken, value |-> <<>>, err |-> PayloadPanic(self, "", "downcast failed")]
        ELSE [event |-> taken, value |-> <<>>, err |-> PayloadPanic(self, "", "missing payload")]

-----------------------------------------------------------------------------
(* store.rs *)

EmptyMap == [k \in {} |-> <<>>]

Store_new == [int_data |-> EmptyMap, float_data |-> EmptyMap, string_data |-> EmptyMap]

Entry(time, value) == [time |-> time, value |-> value]

\* An insert that leaves the entry of a key that has one.
MapInsert_if_absent(map, key, entry) ==
    [k \in (DOMAIN map) \cup {key} |-> IF k \in DOMAIN map THEN map[k] ELSE entry]

\* HashMap::insert
MapInsert(map, key, entry) == [k \in (DOMAIN map) \cup {key} |-> IF k = key THEN entry ELSE map[k]]

\* A setter's outcome: the map it leaves and the panic it raised, "" if none.
SetResult(map, err) == [map |-> map, err |-> err]

\* The setter without its check of the old entry.
Store_set_data_unchecked(map, key, value, time) ==
    SetResult(MapInsert(map, key, Entry(time, value)), "")

\* Store::set_int_data, set_float_data, set_string_data (and the three setting
\* setters) have one body: insert, then panic if the old entry had the same time.
Store_set_data(map, key, value, time) ==
    IF key \in DOMAIN map /\ map[key].time = time
    THEN SetResult(MapInsert(map, key, Entry(time, value)), "AlreadySet")
    ELSE SetResult(MapInsert(map, key, Entry(time, value)), "")

\* A setter that refuses every second write of a key at one time, whatever the value.
Store_set_once(map, key, value, time) ==
    IF key = "" THEN SetResult(map, "InvalidKey")
    ELSE IF key \in DOMAIN map /\ map[key].time = time THEN SetResult(map, "AlreadySet")
    ELSE SetResult(MapInsert(map, key, Entry(time, value)), "")

\* Store::set_int, set_float, set_string as the kernel and the Effector call them:
\* an empty key is refused, a different value at the same time is refused, the
\* same value at the same time is accepted, anything else is written.
Store_set(map, key, value, time) ==
    IF key = "" THEN SetResult(map, "InvalidKey")
    ELSE IF key \in DOMAIN map /\ map[key].time = time /\ map[key].value # value
         THEN SetResult(map, "AlreadySet")
    ELSE SetResult(MapInsert(map, key, Entry(time, value)), "")

\* Store::contains
Store_contains(st, key) ==
    key \in DOMAIN st.int_data \/ key \in DOMAIN st.float_data \/ key \in DOMAIN st.string_data

\* What a getter hands back: the value it read, in a tuple, or the panic it raised.
Returned(op, key, value, err) == [op |-> op, key |-> key, value |-> value, err |-> err]

NoReturn == Returned("", "", <<>>, "")

\* The getter that answers for a missing key as well, with nothing.
Store_get_data_quiet(map, key) ==
    IF key \in DOMAIN map THEN [value |-> <<map[key].value>>, err |-> ""]
    ELSE [value |-> <<>>, err |-> ""]

\* Store::get_int_data, get_float_data, get_string_data (and the three setting
\* getters) have one body: the value of the entry, a panic if there is none.
Store_get_data(map, key) ==
    IF key \in DOMAIN map THEN [value |-> <<map[key].value>>, err |-> ""]
    ELSE [value |-> <<>>, err |-> "MissingKey"]

-----------------------------------------------------------------------------
(* effector.rs *)

Effector_new == [logs |-> <<>>, events |-> <<>>, store |-> Store_new, exit |-> FALSE, removed |-> FALSE]

\* Effector::log
Effector_log(effector, level, message) ==
    [effector EXCEPT !.logs = Append(@, [level |-> level, message |-> message])]

\* The asserts of schedule_after_secs: to != NO_COMPONENT and secs > 0.0.
Effector_schedule_after_secs(effector, event, to, secs) ==
    [effector EXCEPT !.events = Append(@, <<to, event, secs>>)]

Effector_schedule_immediately(effector, event, to) ==
    [effector EXCEPT !.events = Append(@, <<to, event, EPSILON>>)]

Effector_exit(effector) == [effector EXCEPT !.exit = TRUE]

Effector_remove(effector) == [effector EXCEPT !.removed = TRUE]

\* set_int writes the Effector's own store at Time(0).
Effector_set_int(effector, name, value) ==
    [effector EXCEPT !.store.int_data = Store_set(@, name, value, Time(0)).map]

-----------------------------------------------------------------------------
(* ports.rs.  A method that asserts gives back what it leaves and the panic   *)
(* it raised, "" if none.                                                     *)

\* InPort::empty
InPort_empty == [target_id |-> NO_COMPONENT, target_port |-> ""]

\* InPort::new
InPort_new(id) == [target_id |-> id, target_port |-> ""]

\* InPort::with_port_name
InPort_with_port_name(id, port) == [target_id |-> id, target_port |-> port]

\* OutPort::new
OutPort_new == [remote_id |-> NO_COMPONENT, remote_port |-> ""]

\* OutPort::is_connected
OutPort_is_connected(self) == self.remote_id # NO_COMPONENT

\* connect_to that copies the target and leaves the port name as it was.
OutPort_connect_to_id_only(self, port) ==
    IF port.target_id = NO_COMPONENT THEN [out |-> self, err |-> "EmptyInPort"]
    ELSE [out |-> [self EXCEPT !.remote_id = port.target_id], err |-> ""]

\* OutPort::connect_to
OutPort_connect_to(self, port) ==
    IF port.target_id = NO_COMPONENT THEN [out |-> self, err |-> "EmptyInPort"]
    ELSE [out |-> [remote_id |-> port.target_id, remote_port |-> port.target_port], err |-> ""]

\* OutPort::send_payload
OutPort_send_payload(self, effector, name, payload) ==
    IF self.remote_id = NO_COMPONENT THEN [effector |-> effector, err |-> "DisconnectedPort"]
    ELSE [effector |-> Effector_schedule_immediately(
                           effector, Event_with_port_payload(name, self.remote_port, payload),
                           self.remote_id),
          err |-> ""]

\* OutPort::send_payload_after_secs
OutPort_send_payload_after_secs(self, effector, name, secs, payload) ==
    IF self.remote_id = NO_COMPONENT THEN [effector |-> effector, err |-> "DisconnectedPort"]
    ELSE [effector |-> Effector_schedule_after_secs(
                           effector, Event_with_port_payload(name, self.remote_port, payload),
                           self.remote_id, secs),
          err |-> ""]

\* OutPort<()>::send
OutPort_send(self, effector, name) ==
    IF self.remote_id = NO_COMPONENT THEN [effector |-> effector, err |-> "DisconnectedPort"]
    ELSE [effector |-> Effector_schedule_immediately(
                           effector, Event_with_port(name, self.remote_port), self.remote_id),
          err |-> ""]

\* send_after_secs without its assert.
OutPort_send_after_secs_unchecked(self, effector, name, secs) ==
    [effector |-> Effector_schedule_after_secs(
                      effector, Event_with_port(name, self.remote_port), self.remote_id, secs),
     err |-> ""]

\* OutPort<()>::send_after_secs
OutPort_send_after_secs(self, effector, name, secs) ==
    IF self.remote_id = NO_COMPONENT THEN [effector |-> effector, err |-> "DisconnectedPort"]
    ELSE [effector |-> Effector_schedule_after_secs(
                           effector, Event_with_port(name, self.remote_port), self.remote_id, secs),
          err |-> ""]

\* What no method was called on yet.
NoCall == [op |-> "new", port |-> InPort_empty, name |-> "", payload |-> NoPayload, secs |-> EPSILON]

\* A component's OutPort as it is created, with the Effector of its handler;
\* connected is the InPort of the last connect_to that returned.
Ports_new == [out |-> OutPort_new, effector |-> Effector_new, connected |-> InPort_empty, call |-> NoCall]

-----------------------------------------------------------------------------
(* simulation.rs: the scheduler *)

ScheduledEvent(event, to, time) == [time |-> time, to |-> to, event |-> event]

Cmp(a, b) == IF a < b THEN -1 ELSE IF a > b THEN 1 ELSE 0

\* The comparison without the reversal: self against other.
ScheduledEvent_cmp_forward(self, other) == Cmp(self.time, other.time)

\* impl Ord for ScheduledEvent: reversed, because BinaryHeap returns the largest values first.
ScheduledEvent_cmp(self, other) == Cmp(other.time, self.time)

\* What BinaryHeap::peek and pop may return: an entry no other entry is greater than.
\* Which of several equal entries comes first is the heap's own business.
Heap_greatest(heap) ==
    {e \in BagToSet(heap) : \A f \in BagToSet(heap) : ScheduledEvent_cmp(e, f) >= 0}

Heap_push(heap, e) == heap (+) SetToBag({e})

Heap_remove(heap, e) == heap (-) SetToBag({e})

Heap_is_empty(heap) == BagToSet(heap) = {}

\* Simulation::schedule
Schedule(heap, event, to, time) == Heap_push(heap, ScheduledEvent(event, to, time))

\* add_secs without the case of a delta that is not positive.
add_secs_plain(secs) == Time(current_time + SecsToTicks(secs, config.time_units))

\* Simulation::add_secs
add_secs(secs) ==
    LET delta == SecsToTicks(secs, config.time_units)
    IN  IF delta > 0 THEN Time(current_time + delta) ELSE Time(current_time + 1)

-----------------------------------------------------------------------------
(* The threads.  A channel pair belongs to the thread that was spawned with   *)
(* it: the component's own thread ("thread", process_events!) or, once the   *)
(* component was removed, the thread that drops every event ("no_op").       *)

IdleWorker == [status |-> "idle", holding |-> FALSE, seen |-> Store_new]

\* The SimStates alive: one in every message not yet received, one in every
\* thread that has received and not yet dropped.  Each holds a clone of the Arc.
RECURSIVE SumLen(_)
SumLen(boxes) == IF Len(boxes) = 0 THEN 0 ELSE Len(Head(boxes)) + SumLen(Tail(boxes))

RECURSIVE CountHolding(_)
CountHolding(ws) ==
    IF Len(ws) = 0 THEN 0 ELSE (IF Head(ws).holding THEN 1 ELSE 0) + CountHolding(Tail(ws))

Snapshots(k) == SumLen(k.inbox) + CountHolding(k.worker)

\* Arc::get_mut(&mut self.store).expect(...): TRUE when the expect passes.
Arc_get_mut(k) == Snapshots(k) = 0

-----------------------------------------------------------------------------
(* simulation.rs: applying the effects.  k is the part of the simulation the  *)
(* kernel writes while it applies: store, scheduled, the channels and their  *)
(* threads, exited, error, the panic that stopped it, and printed, the      *)
(* lines it has logged.                                                      *)

Kernel == [store |-> store, scheduled |-> scheduled, event_senders |-> event_senders,
           effector_receivers |-> effector_receivers, inbox |-> inbox, outbox |-> outbox,
           worker |-> worker, exited |-> exited, error |-> error, printed |-> <<>>]

Panic(k, what) == [k EXCEPT !.error = what]

\* Simulation::apply_events
RECURSIVE apply_events(_, _)
apply_events(k, events) ==
    IF Len(events) = 0 THEN k
    ELSE LET to == Head(events)[1]
             event == Head(events)[2]
             secs == Head(events)[3]
             time == add_secs(secs)
         IN  apply_events([k EXCEPT !.scheduled = Schedule(@, event, to, time)], Tail(events))

\* The loop with the time the Effector gave the entry, Time(0), for write time.
RECURSIVE apply_patch_at_its_time(_, _, _)
apply_patch_at_its_time(map, patch, path) ==
    IF DOMAIN patch = {} THEN SetResult(map, "")
    ELSE LET name == CHOOSE n \in DOMAIN patch : TRUE
             key == path \o "." \o name
             set == Store_set(map, key, patch[name].value, patch[name].time)
             rest == [n \in (DOMAIN patch) \ {name} |-> patch[n]]
         IN  IF set.err # "" THEN set ELSE apply_patch_at_its_time(set.map, rest, path)

\* One of the three loops of apply_stores, over the keys the patch holds.
RECURSIVE apply_patch(_, _, _)
apply_patch(map, patch, path) ==
    IF DOMAIN patch = {} THEN SetResult(map, "")
    ELSE LET name == CHOOSE n \in DOMAIN patch : TRUE
             key == path \o "." \o name
             set == Store_set(map, key, patch[name].value, current_time)
             rest == [n \in (DOMAIN patch) \ {name} |-> patch[n]]
         IN  IF set.err # "" THEN set ELSE apply_patch(set.map, rest, path)

\* The patch written over whatever the store holds, the last writer winning.
apply_stores_overwrite(k, effector, id) ==
    LET path == Components_full_path(components, id)
        over(map, patch) ==
            [key \in (DOMAIN map) \cup {path \o "." \o n : n \in DOMAIN patch} |->
                IF \E n \in DOMAIN patch : key = path \o "." \o n
                THEN Entry(current_time,
                           patch[CHOOSE n \in DOMAIN patch : key = path \o "." \o n].value)
                ELSE map[key]]
    IN  IF ~Arc_get_mut(k) THEN Panic(k, "StoreShared")
        ELSE [k EXCEPT !.store.int_data = over(@, effector.store.int_data),
                       !.store.float_data = over(@, effector.store.float_data),
                       !.store.string_data = over(@, effector.store.string_data)]

\* Simulation::apply_stores
apply_stores(k, effector, id) ==
    LET path == Components_full_path(components, id)
        ints == apply_patch(k.store.int_data, effector.store.int_data, path)
        floats == apply_patch(k.store.float_data, effector.store.float_data, path)
        strings == apply_patch(k.store.string_data, effector.store.string_data, path)
    IN  IF ~Arc_get_mut(k) THEN Panic(k, "StoreShared")
        ELSE IF ints.err # "" THEN Panic([k EXCEPT !.store.int_data = ints.map], ints.err)
        ELSE IF floats.err # ""
             THEN Panic([k EXCEPT !.store.int_data = ints.map, !.store.float_data = floats.map],
                        floats.err)
        ELSE IF strings.err # ""
             THEN Panic([k EXCEPT !.store.int_data = ints.map, !.store.float_data = floats.map,
                                  !.store.string_data = strings.map], strings.err)
        ELSE [k EXCEPT !.store.int_data = ints.map, !.store.float_data = floats.map,
                       !.store.string_data = strings.map]

\* No thread is swapped in: the component keeps its channels and its thread.
install_removed_thread_not(k, id) == k

\* A thread swapped in only for a component that had one.
install_removed_thread_if_active(k, id) ==
    IF k.event_senders[id + 1] = "None" THEN k
    ELSE [k EXCEPT !.event_senders[id + 1] = "no_op",
                   !.effector_receivers[id + 1] = "no_op",
                   !.inbox[id + 1] = <<>>,
                   !.outbox[id + 1] = <<>>,
                   !.worker[id + 1] = IdleWorker]

\* Simulation::install_removed_thread: fresh channels, and no_op_thread behind them.
install_removed_thread(k, id) ==
    [k EXCEPT !.event_senders[id + 1] = "no_op",
              !.effector_receivers[id + 1] = "no_op",
              !.inbox[id + 1] = <<>>,
              !.outbox[id + 1] = <<>>,
              !.worker[id + 1] = IdleWorker]

\* remove_components without the loop over the children.
remove_components_alone(k, id) ==
    LET installed == install_removed_thread(k, id)
        key == Components_full_path(components, id) \o ".removed"
        set == Store_set(installed.store.int_data, key, 1, current_time)
    IN  IF ~Arc_get_mut(installed) THEN Panic(installed, "StoreShared")
        ELSE IF set.err # "" THEN Panic(installed, set.err)
        ELSE [installed EXCEPT !.store.int_data = set.map]

\* Simulation::remove_components
RECURSIVE remove_components(_, _)
RECURSIVE remove_children(_, _)
remove_components(k, id) ==
    LET installed == install_removed_thread(k, id)
        key == Components_full_path(components, id) \o ".removed"
        set == Store_set(installed.store.int_data, key, 1, current_time)
    IN  IF ~Arc_get_mut(installed) THEN Panic(installed, "StoreShared")
        ELSE IF set.err # "" THEN Panic(installed, set.err)
        ELSE remove_children([installed EXCEPT !.store.int_data = set.map],
                             Components_get(components, id).children)

remove_children(k, children) ==
    IF Len(children) = 0 \/ k.error # "" THEN k
    ELSE remove_children(remove_components(k, Head(children)), Tail(children))

\* Simulation::apply_logs: every record of the Effector is logged for id.  The
\* levels the handlers use are levels the configuration lets through.
apply_logs(k, id, effector) ==
    [k EXCEPT !.printed = @ \o [i \in 1 .. Len(effector.logs) |-> <<id, effector.logs[i].message>>]]

\* The component removed first, and its logs, events and store patch applied after.
apply_effects_remove_first(k, id, effector) ==
    LET removed == IF effector.removed THEN remove_components(k, id) ELSE k
        logged == apply_logs(removed, id, effector)
        evented == apply_events(logged, effector.events)
    IN  IF removed.error # "" THEN removed ELSE apply_stores(evented, effector, id)

\* Simulation::apply_effects
apply_effects(k, id, effector) ==
    LET logged == apply_logs(k, id, effector)
        evented == apply_events(logged, effector.events)
        stored == apply_stores(evented, effector, id)
    IN  IF stored.error # "" THEN stored
        ELSE IF effector.removed THEN remove_components(stored, id)
        ELSE stored

\* effects.sort_by(|a, b| a.0.cmp(&b.0)): a stable sort on the component ID.
RECURSIVE InsertSorted(_, _)
InsertSorted(sorted, x) ==
    IF Len(sorted) = 0 THEN <<x>>
    ELSE IF x[1] < Head(sorted)[1] THEN <<x>> \o sorted
    ELSE <<Head(sorted)>> \o InsertSorted(Tail(sorted), x)

\* A sort on the component ID that is not stable: equal IDs come out reversed.
RECURSIVE sort_by_id_unstable(_)
sort_by_id_unstable(es) ==
    IF Len(es) = 0 THEN <<>>
    ELSE LET least == CHOOSE i \in 1 .. Len(es) :
                         /\ \A j \in 1 .. Len(es) : es[i][1] <= es[j][1]
                         /\ \A j \in (i + 1) .. Len(es) : es[j][1] # es[i][1]
         IN  <<es[least]>> \o sort_by_id_unstable([n \in 1 .. (Len(es) - 1) |->
                                                     IF n < least THEN es[n] ELSE es[n + 1]])

RECURSIVE sort_by_id(_)
sort_by_id(es) ==
    IF Len(es) = 0 THEN <<>>
    ELSE InsertSorted(sort_by_id(SubSeq(es, 1, Len(es) - 1)), es[Len(es)])

\* The loop left at the first Effector that exits.
RECURSIVE apply_all_break(_, _)
apply_all_break(k, es) ==
    IF Len(es) = 0 THEN k
    ELSE LET id == Head(es)[1]
             e == Head(es)[2]
             done == apply_effects(k, id, e)
         IN  IF done.error # "" THEN done
             ELSE IF e.exit THEN [done EXCEPT !.exited = "effector.exit was called"]
             ELSE apply_all_break(done, Tail(es))

\* The last loop of dispatch_events: apply every Effector, and note an exit.
RECURSIVE apply_all(_, _)
apply_all(k, es) ==
    IF Len(es) = 0 THEN k
    ELSE LET id == Head(es)[1]
             e == Head(es)[2]
             done == apply_effects(k, id, e)
         IN  IF done.error # "" THEN done
             ELSE IF e.exit
                  THEN apply_all([done EXCEPT !.exited = "effector.exit was called"], Tail(es))
             ELSE apply_all(done, Tail(es))

-----------------------------------------------------------------------------
(* simulation.rs: the finger print.  A u64 is four limbs of 16 bits, the     *)
(* least first, so that sums beyond 2^64 are what they are in the source.    *)

Limb == 65536

\* n as u64, for 0 <= n < 2^31
U64_from(n) == <<n % Limb, n \div Limb, 0, 0>>

\* a + b on u64: the sum modulo 2^64 and whether it overflowed.
U64_add(a, b) ==
    LET s1 == a[1] + b[1]
        s2 == a[2] + b[2] + s1 \div Limb
        s3 == a[3] + b[3] + s2 \div Limb
        s4 == a[4] + b[4] + s3 \div Limb
    IN  [sum |-> <<s1 % Limb, s2 % Limb, s3 % Limb, s4 % Limb>>, overflow |-> s4 >= Limb]

\* u64::wrapping_add
wrapping_add(a, b) == U64_add(a, b).sum

\* time.0 as u64, for a time that is not negative; I64_MAX stands for 2^63 - 1.
Time_as_u64(t) == IF t = I64_MAX THEN <<65535, 65535, 65535, 32767>> ELSE U64_from(t)

\* name.bytes(), for the names the model uses
Bytes(name) ==
    CASE name = "init 0" -> <<105, 110, 105, 116, 32, 48>>
      [] name = "init 1" -> <<105, 110, 105, 116, 32, 49>>
      [] name = "ping" -> <<112, 105, 110, 103>>
      [] name = "tick" -> <<116, 105, 99, 107>>
      [] name = "a" -> <<97>>
      [] name = "12345678" -> <<49, 50, 51, 52, 53, 54, 55, 56>>
      [] name = "12345678zz" -> <<49, 50, 51, 52, 53, 54, 55, 56, 122, 122>>

Min(a, b) == IF a <= b THEN a ELSE b

\* bytes.take(n)
Take(bytes, n) == SubSeq(bytes, 1, Min(n, Len(bytes)))

\* What the bytes add up to: at most 255 each.
RECURSIVE SumBytes(_)
SumBytes(bytes) == IF Len(bytes) = 0 THEN 0 ELSE Head(bytes) + SumBytes(Tail(bytes))

\* delta += b as u64, for every b: the bytes one after the other or their sum
\* at once, delta is the same.
AddBytes(delta, bytes) == U64_add(delta, U64_from(SumBytes(bytes))).sum

\* Every byte of the name added, not only the first eight.
update_finger_print_whole_name(fp, sevent) ==
    LET delta == U64_add(Time_as_u64(sevent.time), U64_from(sevent.to)).sum
    IN  wrapping_add(fp, AddBytes(delta, Bytes(sevent.event.name)))

\* The finger print doubled before the entry is added, as a hash would mix it.
update_finger_print_mixing(fp, sevent) ==
    LET delta == U64_add(Time_as_u64(sevent.time), U64_from(sevent.to)).sum
        name == Bytes(sevent.event.name)
    IN  wrapping_add(wrapping_add(fp, fp), AddBytes(delta, Take(name, Min(Len(name), 8))))

\* Simulation::update_finger_print.  The sums into delta are plain +=; with a
\* time that is not negative they stay below 2^64.
update_finger_print(fp, sevent) ==
    LET delta == U64_add(Time_as_u64(sevent.time), U64_from(sevent.to)).sum
        name == Bytes(sevent.event.name)
    IN  wrapping_add(fp, AddBytes(delta, Take(name, Min(Len(name), 8))))

-----------------------------------------------------------------------------
(* The edition of a Store: a u32 that counts the writes that changed a value. *)
(* It is two limbs of 16 bits, the least first.                               *)

U32_from(n) == <<n % Limb, (n \div Limb) % Limb>>

U32_MAX == <<Limb - 1, Limb - 1>>

\* u32::wrapping_add(1)
U32_wrapping_inc(e) ==
    IF e[1] + 1 < Limb THEN <<e[1] + 1, e[2]>> ELSE <<0, (e[2] + 1) % Limb>>

\* The edition that counts every write the store took.
Store_edition_of_writes(map, e, key, value, time) ==
    IF key = "" THEN e
    ELSE IF key \in DOMAIN map /\ map[key].time = time /\ map[key].value # value THEN e
    ELSE U32_wrapping_inc(e)

\* Store::set_int, set_float, set_string: what they leave in edition.  A write
\* that is refused leaves it alone, and so does a write of the value the key
\* has; an insert and a write of another value add one.
Store_edition(map, e, key, value, time) ==
    IF key = "" THEN e
    ELSE IF key \in DOMAIN map /\ map[key].time = time /\ map[key].value # value THEN e
    ELSE IF key \in DOMAIN map /\ map[key].value = value THEN e
    ELSE U32_wrapping_inc(e)

-----------------------------------------------------------------------------
(* simulation.rs: dispatching *)

\* The entries of the heap at time t, and the orders in which pop may return them.
EntriesAt(heap, t) == [e \in {x \in BagToSet(heap) : x.time = t} |-> heap[e]]

RECURSIVE Orders(_)
Orders(bag) ==
    IF BagToSet(bag) = {} THEN {<<>>}
    ELSE UNION {{<<e>> \o o : o \in Orders(bag (-) SetToBag({e}))} : e \in BagToSet(bag)}

\* The first loop of dispatch_events, on the entries in the order they are popped.
\* d holds what the loop writes: scheduled, ids, event_num, finger_print, inbox, error (and
\* popped, the entries it took).
\* The loop with an else branch that drops the entry of a component without a sender.
RECURSIVE dispatch_loop_dropping(_, _)
dispatch_loop_dropping(d, order) ==
    IF Len(order) = 0 \/ d.error # "" THEN d
    ELSE LET e == Head(order)
             took == [d EXCEPT !.scheduled = Heap_remove(@, e),
                               !.finger_print = update_finger_print(@, e),
                               !.popped = Append(@, e),
                               !.ids = Append(@, e.to),
                               !.event_num = @ + 1]
         IN  IF event_senders[e.to + 1] = "None"
             THEN dispatch_loop_dropping([took EXCEPT !.ids = d.ids], Tail(order))
             ELSE IF worker[e.to + 1].status = "dead"
                  THEN [took EXCEPT !.error = "SendError"]
             ELSE dispatch_loop_dropping([took EXCEPT !.inbox[e.to + 1] = Append(@, e.event)],
                                         Tail(order))

RECURSIVE dispatch_loop(_, _)
dispatch_loop(d, order) ==
    IF Len(order) = 0 \/ d.error # "" THEN d
    ELSE LET e == Head(order)
             took == [d EXCEPT !.scheduled = Heap_remove(@, e),
                               !.finger_print = update_finger_print(@, e),
                               !.popped = Append(@, e),
                               !.ids = Append(@, e.to),
                               !.event_num = @ + 1]
         IN  IF event_senders[e.to + 1] = "None"
             THEN [took EXCEPT !.error = "InactiveTarget"]
             ELSE IF worker[e.to + 1].status = "dead"
                  THEN [took EXCEPT !.error = "SendError"]
             ELSE dispatch_loop([took EXCEPT !.inbox[e.to + 1] = Append(@, e.event)],
                                Tail(order))

\* format!("init {}", stage)
InitName(k) == "init " \o ToString(k)

\* History: the init events among the entries sent, noted per component with the time.
IsInit(name) == \E k \in 0 .. (config.num_init_stages - 1) : name = InitName(k)

RECURSIVE log_inits(_, _, _)
log_inits(log, sent, t) ==
    IF Len(sent) = 0 THEN log
    ELSE LET e == Head(sent)
         IN  IF IsInit(e.event.name)
             THEN log_inits([log EXCEPT ![e.to + 1] = Append(@, <<e.event.name, t>>)], Tail(sent), t)
             ELSE log_inits(log, Tail(sent), t)

\* dispatch_events up to its second loop, which waits for the workers.
BeginDispatch(heap) ==
    LET t == (CHOOSE e \in Heap_greatest(heap) : TRUE).time
    IN  \E order \in Orders(EntriesAt(heap, t)) :
            LET d == dispatch_loop([scheduled |-> heap, popped |-> <<>>, ids |-> <<>>,
                                    event_num |-> event_num, finger_print |-> finger_print,
                                    inbox |-> inbox, error |-> ""],
                                   order)
            IN  /\ current_time' = t
                /\ popped' = d.popped
                /\ init_log' = IF d.error # "" THEN init_log ELSE log_inits(init_log, d.popped, t)
                /\ scheduled' = d.scheduled
                /\ ids' = d.ids
                /\ event_num' = d.event_num
                /\ finger_print' = d.finger_print
                /\ inbox' = d.inbox
                /\ error' = d.error
                /\ pass_store' = store
                /\ pc' = IF d.error # "" THEN "fatal" ELSE "collect"

\* The loop over the senders begun at 1 instead of 0.
RECURSIVE schedule_init_stage_from_one(_, _, _)
schedule_init_stage_from_one(heap, k, i) ==
    IF i >= Len(event_senders) THEN heap
    ELSE IF i >= 1 /\ event_senders[i + 1] # "None"
         THEN schedule_init_stage_from_one(Schedule(heap, Event_new(InitName(k)), i, Time(0)),
                                           k, i + 1)
    ELSE schedule_init_stage_from_one(heap, k, i + 1)

\* The events of stage k scheduled at Time(k) instead of Time(0).
RECURSIVE schedule_init_stage_at_its_stage(_, _, _)
schedule_init_stage_at_its_stage(heap, k, i) ==
    IF i >= Len(event_senders) THEN heap
    ELSE IF event_senders[i + 1] # "None"
         THEN schedule_init_stage_at_its_stage(Schedule(heap, Event_new(InitName(k)), i, Time(k)),
                                               k, i + 1)
    ELSE schedule_init_stage_at_its_stage(heap, k, i + 1)

\* Simulation::schedule_init_stage, without its assert
RECURSIVE schedule_init_stage(_, _, _)
schedule_init_stage(heap, k, i) ==
    IF i >= Len(event_senders) THEN heap
    ELSE IF event_senders[i + 1] # "None"
         THEN schedule_init_stage(Schedule(heap, Event_new(InitName(k)), i, Time(0)), k, i + 1)
    ELSE schedule_init_stage(heap, k, i + 1)

-----------------------------------------------------------------------------
(* What a worker may answer an event with.  The handlers are the user's code: *)
(* the model draws the Effector from a small set built with the Effector's    *)
(* own methods.                                                                *)

WriteNames == {"x"}

\* An Effector that schedules "ping" for every component in tos, as soon as possible.
RECURSIVE Pings(_, _)
Pings(effector, tos) ==
    IF Len(tos) = 0 THEN effector
    ELSE Pings(Effector_schedule_immediately(effector, Event_new("ping"), Head(tos)), Tail(tos))

WriteValues == {1, 2}

\* The delay the handlers give schedule_after_secs: 1.25 s
Delays == {Secs(5, 2)}

\* The handlers of the program "basic": each uses one method of the Effector.
BasicHandlers(self) ==
    {Pings(Effector_new, [i \in 1 .. Len(components) |-> i - 1])}
    \cup {Effector_schedule_after_secs(Effector_new, Event_new("tick"), self, secs) : secs \in Delays}
    \cup {Effector_set_int(Effector_new, name, value) : name \in WriteNames, value \in WriteValues}
    \cup {Effector_exit(Effector_new), Effector_remove(Effector_new)}

\* A handler that logs the value it writes.
Note(value) == Effector_set_int(Effector_log(Effector_new, "Info", ToString(value)), "x", value)

\* A handler that logs, schedules a "tick" for itself, writes and removes itself.
Farewell(self, secs) ==
    Effector_remove(
        Effector_set_int(
            Effector_schedule_after_secs(Effector_log(Effector_new, "Info", "bye"),
                                         Event_new("tick"), self, secs),
            "x", 2))

\* The handlers of the program "rich": they log, and use several methods at once.
RichHandlers(self) ==
    {Pings(Effector_log(Effector_new, "Info", "hi"), <<self, self, 0>>)}
    \cup {Note(value) : value \in WriteValues}
    \cup {Effector_exit(Effector_log(Effector_new, "Info", "exit"))}
    \cup {Farewell(self, secs) : secs \in Delays}

\* The components that have a thread, in ascending order of ID.
RECURSIVE Threads(_)
Threads(i) ==
    IF i >= Len(event_senders) THEN <<>>
    ELSE (IF event_senders[i + 1] = "thread" THEN <<i>> ELSE <<>>) \o Threads(i + 1)

\* The one handler of the program "det".  What it does it decides by what it
\* reads in the state it was given: without an x of its own it writes 1 and
\* pings every thread; with x = 1 it writes 2 and schedules a "tick" for
\* itself; after that component 0 exits and the others remove themselves.
Deterministic(self, state) ==
    LET key == Components_full_path(components, self) \o ".x"
    IN  IF ~Store_contains(state, key)
        THEN Pings(Effector_set_int(Effector_log(Effector_new, "Info", "first"), "x", 1),
                   Threads(0))
        ELSE IF state.int_data[key].value = 1
        THEN Effector_schedule_after_secs(
                 Effector_set_int(Effector_log(Effector_new, "Info", "second"), "x", 2),
                 Event_new("tick"), self, Secs(5, 2))
        ELSE IF self = 0 THEN Effector_exit(Effector_log(Effector_new, "Info", "done"))
        ELSE Effector_remove(Effector_log(Effector_new, "Info", "bye"))

Handlers(self) ==
    IF program = "basic" THEN BasicHandlers(self)
    ELSE IF program = "rich" THEN RichHandlers(self)
    ELSE {Deterministic(self, worker[self + 1].seen)}

\* The answer of an arm that leaves the simulation as it is: Effector::new(),
\* and in the program "rich" a line in the log.  no_op_thread logs nothing.
\* The program "det" has one answer to everything, which is its handler's.
Quiet(id) ==
    IF program = "rich" /\ event_senders[id + 1] = "thread"
    THEN Effector_log(Effector_new, "Info", "ok")
    ELSE IF program = "det" /\ event_senders[id + 1] = "thread"
    THEN Deterministic(id, worker[id + 1].seen)
    ELSE Effector_new

-----------------------------------------------------------------------------
(* The state after Simulation::new(config) *)

Configs == {Config(2, INFINITY, 1), Config(1, Secs(3, 1), 2)}

Init ==
    /\ components = Components_new
    /\ event_senders = <<>>
    /\ effector_receivers = <<>>
    /\ config \in Configs
    /\ program = "basic"
    /\ current_time = Time(0)
    /\ exited = "None"
    /\ scheduled = EmptyBag
    /\ event_num = 0
    /\ finger_print = U64_from(0)
    /\ store = Store_new
    /\ pc = "setup"
    /\ stage = 0
    /\ ids = <<>>
    /\ inbox = <<>>
    /\ outbox = <<>>
    /\ worker = <<>>
    /\ error = ""
    /\ pass_store = Store_new
    /\ popped = <<>>
    /\ applied = <<>>
    /\ printed = <<>>
    /\ init_log = <<>>
    /\ budget = MaxWork
    /\ writes = <<>>
    /\ ports = Ports_new
    /\ spawned = {}
    /\ edition = U32_from(0)
    /\ returned = NoReturn
    /\ held_event = Event_new("")

-----------------------------------------------------------------------------
(* Setting the simulation up *)

\* What add_component and add_active_component share; sender is what they push.
Add(name, parent, sender) ==
    /\ pc = "setup"
    /\ Len(components) < MaxComponents
    /\ IF ~(parent # NO_COMPONENT \/ Components_is_empty(components))
       THEN /\ error' = "SecondRoot"
            /\ pc' = "fatal"
            /\ UNCHANGED <<components, event_senders, effector_receivers, inbox, outbox, worker,
                           init_log, spawned,
                           edition, returned, held_event>>
       ELSE IF parent # NO_COMPONENT
               /\ ~Components_check_for_dupes(components, parent, Component(name, parent))
       THEN /\ error' = "DuplicateSibling"
            /\ pc' = "fatal"
            /\ UNCHANGED <<components, event_senders, effector_receivers, inbox, outbox, worker,
                           init_log, spawned,
                           edition, returned, held_event>>
       ELSE /\ components' = Components_append(components, Len(event_senders),
                                               Component(name, parent), parent)
            /\ event_senders' = Append(event_senders, sender)
            /\ effector_receivers' = Append(effector_receivers, sender)
            /\ inbox' = Append(inbox, <<>>)
            /\ outbox' = Append(outbox, <<>>)
            /\ worker' = Append(worker, IdleWorker)
            /\ init_log' = Append(init_log, <<>>)
            /\ spawned' = IF sender = "thread" THEN spawned \cup {Len(event_senders)} ELSE spawned
            /\ UNCHANGED <<error, pc>>
    /\ UNCHANGED <<config, program, current_time, exited, scheduled, event_num, finger_print, store, stage, ids,
                   pass_store, popped, applied, printed, budget, writes, ports,
                   edition, returned, held_event>>

\* Simulation::add_component
AddComponent ==
    \E parent \in ComponentIDs(components) \cup {NO_COMPONENT} :
        Add(ComponentNames[Len(components) + 1], parent, "None")

\* Simulation::add_active_component, and the user spawning the thread for its ThreadData
AddActiveComponent ==
    /\ Cardinality({i \in 1 .. Len(event_senders) : event_senders[i] # "None"}) < MaxActive
    /\ \E parent \in ComponentIDs(components) \cup {NO_COMPONENT} :
           Add(ComponentNames[Len(components) + 1], parent, "thread")

\* The setup of the programs the model runs: a root with a thread, below it
\* a second component with or without a thread, and in the larger setup a
\* third without one, below either.  A component added as a second root is
\* the user's error.
AddRoot == Components_is_empty(components) /\ AddActiveComponent

AddChild == Len(components) = 1 /\ (AddActiveComponent \/ AddComponent)

AddGrandchild == Len(components) = 2 /\ AddComponent

\* Simulation::run, run_normally up to init_components
Run ==
    /\ pc = "setup"
    /\ exited = "None"
    /\ pc' = "init"
    /\ UNCHANGED <<components, event_senders, effector_receivers, config, program, current_time, exited,
                   scheduled, event_num, finger_print, store, stage, ids, inbox, outbox, worker,
                   error, pass_store, popped, applied, printed, init_log, budget, writes, ports, spawned,
                   edition, returned, held_event>>

-----------------------------------------------------------------------------
(* The kernel thread *)

\* init_components: one turn of its loop, up to where dispatch_events waits.
InitStage ==
    /\ pc = "init"
    /\ LET heap == schedule_init_stage(scheduled, stage, 0)
       IN  IF Heap_is_empty(heap)
           THEN /\ error' = "NoActiveComponent"
                /\ pc' = "fatal"
                /\ UNCHANGED <<current_time, scheduled, ids, event_num, finger_print, inbox, pass_store,
                               popped, init_log>>
           ELSE BeginDispatch(heap)
    /\ UNCHANGED <<components, event_senders, effector_receivers, config, program, exited, store, stage,
                   outbox, worker, applied, printed, budget, writes, ports, spawned,
                   edition, returned, held_event>>

\* run_time_slice without the check of max_secs.
run_time_slice_unbounded(heap, now, cfg) ==
    IF Heap_is_empty(heap) THEN "no events" ELSE "None"

\* run_time_slice that goes on at max_time and stops past it.
run_time_slice_past_max(heap, now, cfg) ==
    LET max_time == IF cfg.max_secs.inf THEN I64_MAX
                    ELSE SecsToTicks(cfg.max_secs, cfg.time_units)
    IN  IF Heap_is_empty(heap) THEN "no events"
        ELSE IF now > max_time THEN "reached config.max_secs"
        ELSE "None"

\* The two checks in the other order.
run_time_slice_max_first(heap, now, cfg) ==
    LET max_time == IF cfg.max_secs.inf THEN I64_MAX
                    ELSE SecsToTicks(cfg.max_secs, cfg.time_units)
    IN  IF now >= max_time THEN "reached config.max_secs"
        ELSE IF Heap_is_empty(heap) THEN "no events"
        ELSE "None"

\* run_time_slice: what it decides.  "None" stands for the call of dispatch_events.
run_time_slice(heap, now, cfg) ==
    LET max_time == IF cfg.max_secs.inf THEN I64_MAX
                    ELSE SecsToTicks(cfg.max_secs, cfg.time_units)
    IN  IF Heap_is_empty(heap) THEN "no events"
        ELSE IF now >= max_time THEN "reached config.max_secs"
        ELSE "None"

\* One turn of the loop of run_normally: run_time_slice, up to where dispatch_events waits.
RunTimeSlice ==
    /\ pc = "main"
    /\ exited = "None"
    /\ LET reason == run_time_slice(scheduled, current_time, config)
       IN  IF reason # "None"
           THEN /\ exited' = reason
                /\ UNCHANGED <<current_time, scheduled, ids, event_num, finger_print, inbox, pass_store,
                               error, pc, popped, init_log>>
           ELSE /\ BeginDispatch(scheduled)
                /\ UNCHANGED exited
    /\ UNCHANGED <<components, event_senders, effector_receivers, config, program, store, stage, outbox,
                   worker, applied, printed, budget, writes, ports, spawned,
                   edition, returned, held_event>>

\* Every turn takes the Effector at the head of what the thread sent in the pass.
Occurrence_first(i) == 1

\* The second loop of dispatch_events: for id in ids { rx.recv_timeout(..) }.
\* Its i-th turn takes the next Effector of the channel of ids[i], which is the
\* Occurrence(i)-th that component's thread sent in this pass.
Occurrence(i) == Cardinality({j \in 1 .. i : ids[j] = ids[i]})

Arrived(i) == Len(outbox[ids[i] + 1]) >= Occurrence(i)

\* The loop left as soon as the first Effector is in.
FirstReceived == Len(ids) > 0 => Arrived(1)

\* The loop is over once every Effector is in.
AllReceived == \A i \in 1 .. Len(ids) : Arrived(i)

\* The turn the loop waits in.
Awaited == CHOOSE i \in 1 .. Len(ids) : ~Arrived(i) /\ \A j \in 1 .. (i - 1) : Arrived(j)

\* effects: what the loop has pushed when it has taken all that arrived, from turn i on.
RECURSIVE Received(_)
Received(i) ==
    IF i > Len(ids) \/ ~Arrived(i) THEN <<>>
    ELSE <<<<ids[i], outbox[ids[i] + 1][Occurrence(i)]>>>> \o Received(i + 1)

\* The channels once the loop has taken effects from them.
Drained(effects) ==
    [c \in DOMAIN outbox |->
        LET n == Cardinality({i \in 1 .. Len(effects) : effects[i][1] = c - 1})
        IN  SubSeq(outbox[c], n + 1, Len(outbox[c]))]

\* rx.recv in place of rx.recv_timeout: it does not return while the thread is silent.
ReceiveTimeout_recv == FALSE /\ UNCHANGED vars

\* rx.recv_timeout returned Err(Timeout): the thread did not answer within the
\* 5000 ms.  The model has no clock: a thread answers in time or it stalls.
ReceiveTimeout ==
    /\ pc = "collect"
    /\ ~AllReceived
    /\ worker[ids[Awaited] + 1].status = "stalled"
    /\ error' = "WorkerStalled"
    /\ pc' = "fatal"
    /\ UNCHANGED <<components, event_senders, effector_receivers, config, program, current_time, exited,
                   scheduled, event_num, finger_print, store, stage, ids, inbox, outbox, worker,
                   pass_store, popped, applied, printed, init_log, budget, writes, ports, spawned,
                   edition, returned, held_event>>

\* The panic raised after the Effectors that did arrive were applied.
ReceiveDisconnected_applying ==
    /\ pc = "collect"
    /\ ~AllReceived
    /\ worker[ids[Awaited] + 1].status = "dead"
    /\ LET effects == Received(1)
           k == apply_all([Kernel EXCEPT !.outbox = Drained(effects)], sort_by_id(effects))
       IN  /\ store' = k.store
           /\ scheduled' = k.scheduled
           /\ event_senders' = k.event_senders
           /\ effector_receivers' = k.effector_receivers
           /\ inbox' = k.inbox
           /\ outbox' = k.outbox
           /\ worker' = k.worker
           /\ exited' = k.exited
    /\ error' = "WorkerGone"
    /\ pc' = "fatal"
    /\ UNCHANGED <<components, config, program, current_time, event_num, finger_print, stage, ids,
                   pass_store, popped, applied, printed, init_log, budget, writes, ports, spawned,
                   edition, returned, held_event>>

\* rx.recv_timeout returned Err(Disconnected): the thread is gone and its channel is empty.
ReceiveDisconnected ==
    /\ pc = "collect"
    /\ ~AllReceived
    /\ worker[ids[Awaited] + 1].status = "dead"
    /\ error' = "WorkerGone"
    /\ pc' = "fatal"
    /\ UNCHANGED <<components, event_senders, effector_receivers, config, program, current_time, exited,
                   scheduled, event_num, finger_print, store, stage, ids, inbox, outbox, worker,
                   pass_store, popped, applied, printed, init_log, budget, writes, ports, spawned,
                   edition, returned, held_event>>

\* The reason left as dispatch_events set it.
InitExited_kept(reason) == reason

\* init_components after dispatch_events returned: the exit reason of an init stage.
InitExited(reason) ==
    IF reason # "None" THEN "Effector.exit was called during initialization" ELSE reason

\* The rest of dispatch_events: every rx.recv_timeout returns Ok(e), then sort,
\* apply, note an exit; and what follows it in the caller up to the next dispatch.
ApplyEffects ==
    /\ pc = "collect"
    /\ AllReceived
    /\ LET effects == Received(1)
           k == apply_all([Kernel EXCEPT !.outbox = Drained(effects)], sort_by_id(effects))
           in_init == stage < config.num_init_stages
       IN  /\ store' = k.store
           /\ scheduled' = k.scheduled
           /\ event_senders' = k.event_senders
           /\ effector_receivers' = k.effector_receivers
           /\ inbox' = k.inbox
           /\ outbox' = k.outbox
           /\ worker' = k.worker
           /\ error' = k.error
           /\ applied' = sort_by_id(effects)
           /\ printed' = k.printed
           /\ IF k.error # ""
              THEN /\ pc' = "fatal"
                   /\ exited' = k.exited
                   /\ stage' = stage
              ELSE IF in_init
              THEN /\ exited' = InitExited(k.exited)
                   /\ stage' = stage + 1
                   /\ pc' = IF stage + 1 < config.num_init_stages THEN "init" ELSE "main"
              ELSE /\ exited' = k.exited
                   /\ stage' = stage
                   /\ pc' = "main"
    /\ ids' = <<>>
    /\ UNCHANGED <<components, config, program, current_time, event_num, finger_print, pass_store, popped, init_log,
                   budget, writes, ports, spawned,
                   edition, returned, held_event>>

\* run_normally once its loop is over: Simulation::exit
Exit ==
    /\ pc = "main"
    /\ exited # "None"
    /\ pc' = "done"
    /\ UNCHANGED <<components, event_senders, effector_receivers, config, program, current_time, exited,
                   scheduled, event_num, finger_print, store, stage, ids, inbox, outbox, worker,
                   error, pass_store, popped, applied, printed, init_log, budget, writes, ports, spawned,
                   edition, returned, held_event>>

-----------------------------------------------------------------------------
(* The worker threads *)

\* process_events!: the thread takes the next (event, state) and runs the arm
\* for the event.  The arm runs, reading the state it was given; or no arm
\* matches and the thread panics; or the arm does not return in time.
\* no_op_thread takes the pair too.
WorkerReceive(id) ==
    /\ pc # "fatal"
    /\ worker[id + 1].status = "idle"
    /\ Len(inbox[id + 1]) > 0
    /\ inbox' = [inbox EXCEPT ![id + 1] = Tail(@)]
    /\ \/ /\ worker' = [worker EXCEPT ![id + 1] =
                           [status |-> "busy", holding |-> TRUE, seen |-> store]]
          /\ UNCHANGED budget
       \/ /\ event_senders[id + 1] = "thread"
          /\ budget > 0
          /\ worker' = [worker EXCEPT ![id + 1] = [IdleWorker EXCEPT !.status = "dead"]]
          /\ budget' = budget - 1
       \/ /\ event_senders[id + 1] = "thread"
          /\ budget > 0
          /\ worker' = [worker EXCEPT ![id + 1] =
                           [status |-> "stalled", holding |-> TRUE, seen |-> store]]
          /\ budget' = budget - 1
    /\ UNCHANGED <<components, event_senders, effector_receivers, config, program, current_time, exited,
                   scheduled, event_num, finger_print, store, pc, stage, ids, outbox, error,
                   pass_store, popped, applied, printed, init_log, writes, ports, spawned,
                   edition, returned, held_event>>

\* The send before the drop: the Effector is in the channel and the state is still held.
process_events_sent_holding(w) == [IdleWorker EXCEPT !.holding = TRUE]

\* What the thread holds once its Effector is in the channel: it dropped the
\* state before the send.
process_events_sent(w) == IdleWorker

\* The arm returns with the Effector it filled (no_op_thread: with Effector::new());
\* then drop(state); tx.send(effector).
WorkerSend(id) ==
    /\ pc # "fatal"
    /\ worker[id + 1].status = "busy"
    /\ \/ /\ outbox' = [outbox EXCEPT ![id + 1] = Append(@, Quiet(id))]
          /\ UNCHANGED budget
       \/ /\ event_senders[id + 1] = "thread"
          /\ budget > 0
          /\ \E effector \in Handlers(id) :
                outbox' = [outbox EXCEPT ![id + 1] = Append(@, effector)]
          /\ budget' = budget - 1
    /\ worker' = [worker EXCEPT ![id + 1] = process_events_sent(@)]
    /\ UNCHANGED <<components, event_senders, effector_receivers, config, program, current_time, exited,
                   scheduled, event_num, finger_print, store, pc, stage, ids, inbox, error,
                   pass_store, popped, applied, printed, init_log, writes, ports, spawned,
                   edition, returned, held_event>>

Next ==
    \/ AddRoot
    \/ AddChild
    \/ Run
    \/ InitStage
    \/ RunTimeSlice
    \/ ReceiveTimeout
    \/ ReceiveDisconnected
    \/ ApplyEffects
    \/ Exit
    \/ \E id \in ComponentIDs(components) : WorkerReceive(id)
    \/ \E id \in ComponentIDs(components) : WorkerSend(id)

Spec == Init /\ [][Next]_vars

\* The same simulation with less work for the threads, and with the third component.
MaxSmallWork == 2

InitSmall ==
    /\ components = Components_new
    /\ event_senders = <<>>
    /\ effector_receivers = <<>>
    /\ config \in Configs
    /\ program = "basic"
    /\ current_time = Time(0)
    /\ exited = "None"
    /\ scheduled = EmptyBag
    /\ event_num = 0
    /\ finger_print = U64_from(0)
    /\ store = Store_new
    /\ pc = "setup"
    /\ stage = 0
    /\ ids = <<>>
    /\ inbox = <<>>
    /\ outbox = <<>>
    /\ worker = <<>>
    /\ error = ""
    /\ pass_store = Store_new
    /\ popped = <<>>
    /\ applied = <<>>
    /\ printed = <<>>
    /\ init_log = <<>>
    /\ budget = MaxSmallWork
    /\ writes = <<>>
    /\ ports = Ports_new
    /\ spawned = {}
    /\ edition = U32_from(0)
    /\ returned = NoReturn
    /\ held_event = Event_new("")

SpecSmall == InitSmall /\ [][Next]_vars

NextFamily ==
    \/ AddGrandchild
    \/ Next

SpecFamily == InitSmall /\ [][NextFamily]_vars

\* The same simulation with the program "rich", one init stage and a tick to the second.
MaxRichWork == 3

InitRich ==
    /\ components = Components_new
    /\ event_senders = <<>>
    /\ effector_receivers = <<>>
    /\ config = Config(1, INFINITY, 1)
    /\ program = "rich"
    /\ current_time = Time(0)
    /\ exited = "None"
    /\ scheduled = EmptyBag
    /\ event_num = 0
    /\ finger_print = U64_from(0)
    /\ store = Store_new
    /\ pc = "setup"
    /\ stage = 0
    /\ ids = <<>>
    /\ inbox = <<>>
    /\ outbox = <<>>
    /\ worker = <<>>
    /\ error = ""
    /\ pass_store = Store_new
    /\ popped = <<>>
    /\ applied = <<>>
    /\ printed = <<>>
    /\ init_log = <<>>
    /\ budget = MaxRichWork
    /\ writes = <<>>
    /\ ports = Ports_new
    /\ spawned = {}
    /\ edition = U32_from(0)
    /\ returned = NoReturn
    /\ held_event = Event_new("")

SpecRich == InitRich /\ [][Next]_vars

\* The same simulation with the program "det": the threads answer as their
\* handler says, and one of them may panic or stall.
MaxDetWork == 1

InitDet ==
    /\ components = Components_new
    /\ event_senders = <<>>
    /\ effector_receivers = <<>>
    /\ config = Config(1, INFINITY, 1)
    /\ program = "det"
    /\ current_time = Time(0)
    /\ exited = "None"
    /\ scheduled = EmptyBag
    /\ event_num = 0
    /\ finger_print = U64_from(0)
    /\ store = Store_new
    /\ pc = "setup"
    /\ stage = 0
    /\ ids = <<>>
    /\ inbox = <<>>
    /\ outbox = <<>>
    /\ worker = <<>>
    /\ error = ""
    /\ pass_store = Store_new
    /\ popped = <<>>
    /\ applied = <<>>
    /\ printed = <<>>
    /\ init_log = <<>>
    /\ budget = MaxDetWork
    /\ writes = <<>>
    /\ ports = Ports_new
    /\ spawned = {}
    /\ edition = U32_from(0)
    /\ returned = NoReturn
    /\ held_event = Event_new("")

SpecDet == InitDet /\ [][Next]_vars

\* The threads run: a thread that can take an event or send its Effector does
\* so sooner or later (a stalled one never does).
Threads_run == \E id \in ComponentIDs(components) : WorkerReceive(id) \/ WorkerSend(id)

\* The kernel runs: a recv_timeout that cannot return an Effector returns its error.
Receive_fails == ReceiveTimeout \/ ReceiveDisconnected

\* And once every recv_timeout can return Ok, dispatch_events goes on to the
\* end: weak fairness of ApplyEffects, which is enabled exactly in those states.
Kernel_applies == []<>(~(pc = "collect" /\ AllReceived)) \/ []<><<ApplyEffects>>_vars

SpecLive ==
    InitDet /\ [][Next]_vars /\ WF_vars(Threads_run) /\ WF_vars(Receive_fails) /\ Kernel_applies

-----------------------------------------------------------------------------
(* A Store by itself, as the tests of store.rs use it: its owner gives it     *)
(* writes of any key and value.  The owners of a Store in this crate are the  *)
(* Simulation, which writes at its current_time, and the Effector, which      *)
(* writes at Time(0): the time of a write is never before the time of the     *)
(* write before it.  current_time is the owner's clock.                       *)

StoreKeys == {"weight", "foo"}

StoreTimes == {Time(0), Time(1)}

IntValues == {120, 130}

FloatValues == {Secs(1, 1), Secs(3, 1)}

StringValues == {"red", "blue"}

InitStore ==
    /\ components = Components_new
    /\ event_senders = <<>>
    /\ effector_receivers = <<>>
    /\ config = Config(1, INFINITY, 1)
    /\ program = "basic"
    /\ current_time = Time(0)
    /\ exited = "None"
    /\ scheduled = EmptyBag
    /\ event_num = 0
    /\ finger_print = U64_from(0)
    /\ store = Store_new
    /\ pc = "store"
    /\ stage = 0
    /\ ids = <<>>
    /\ inbox = <<>>
    /\ outbox = <<>>
    /\ worker = <<>>
    /\ error = ""
    /\ pass_store = Store_new
    /\ popped = <<>>
    /\ applied = <<>>
    /\ printed = <<>>
    /\ init_log = <<>>
    /\ budget = 0
    /\ writes = <<>>
    /\ ports = Ports_new
    /\ spawned = {}
    /\ edition = U32_from(0)
    /\ returned = NoReturn
    /\ held_event = Event_new("")

\* One call of a setter on the map of its kind; writes notes the call if it returned.
Set(kind, set, key, value, time) ==
    /\ pc = "store"
    /\ Len(writes) < MaxWrites
    /\ time >= current_time
    /\ current_time' = time
    /\ store' = [store EXCEPT ![kind] = set.map]
    /\ error' = set.err
    /\ pc' = IF set.err # "" THEN "fatal" ELSE "store"
    /\ writes' = IF set.err # "" THEN writes
                 ELSE Append(writes, [kind |-> kind, key |-> key, value |-> value, time |-> time])
    /\ UNCHANGED <<components, event_senders, effector_receivers, config, program, exited, scheduled,
                   event_num, finger_print, stage, ids, inbox, outbox, worker, pass_store, popped,
                   applied, printed, init_log, budget, ports, spawned,
                   edition, returned, held_event>>

\* Store::set_int_data
SetIntData ==
    \E key \in StoreKeys, value \in IntValues, time \in StoreTimes :
        Set("int_data", Store_set_data(store.int_data, key, value, time), key, value, time)

\* Store::set_float_data
SetFloatData ==
    \E key \in StoreKeys, value \in FloatValues, time \in StoreTimes :
        Set("float_data", Store_set_data(store.float_data, key, value, time), key, value, time)

\* Store::set_string_data
SetStringData ==
    \E key \in StoreKeys, value \in StringValues, time \in StoreTimes :
        Set("string_data", Store_set_data(store.string_data, key, value, time), key, value, time)

\* One call of a getter on the map of its kind.
Get(kind, key) ==
    LET get == Store_get_data(store[kind], key)
    IN  /\ pc = "store"
        /\ returned' = Returned(kind, key, get.value, get.err)
        /\ error' = get.err
        /\ pc' = IF get.err # "" THEN "fatal" ELSE "store"
        /\ UNCHANGED <<components, event_senders, effector_receivers, config, program, current_time,
                       exited, scheduled, event_num, finger_print, store, stage, ids, inbox, outbox,
                       worker, pass_store, popped, applied, printed, init_log, budget, writes, ports,
                       spawned, edition, held_event>>

\* Store::get_int_data
GetIntData == \E key \in StoreKeys : Get("int_data", key)

\* Store::get_float_data
GetFloatData == \E key \in StoreKeys : Get("float_data", key)

\* Store::get_string_data
GetStringData == \E key \in StoreKeys : Get("string_data", key)

NextStore ==
    \/ SetIntData
    \/ SetFloatData
    \/ SetStringData
    \/ GetIntData
    \/ GetFloatData
    \/ GetStringData

SpecStore == InitStore /\ [][NextStore]_vars

Kinds == {"int_data", "float_data", "string_data"}

\* A step in which a setter was given the key, the time and the value of an
\* entry the store holds: the only calls that leave every entry as it was and
\* are not getters.
SameWriteAgain ==
    /\ store' = store
    /\ returned' = returned
    /\ \E kind \in Kinds : \E key \in DOMAIN store[kind] : store[kind][key].time = current_time'

\* C21: a write to a key that holds an entry of the same write_time and the same
\* value is accepted: the setter returns without a panic and the store goes on,
\* the key still holding that value.
C21_AsStated ==
    [][SameWriteAgain => (error' = "" /\ pc' = "store")]_vars

\* The places in writes of the writes to a key of a kind.
WritesTo(kind, key) == {i \in 1 .. Len(writes) : writes[i].kind = kind /\ writes[i].key = key}

\* The last of them.
LastWrite(kind, key) == CHOOSE i \in WritesTo(kind, key) : \A j \in WritesTo(kind, key) : j <= i

\* A step after which returned is what a getter of the kind returned for the
\* key.  With the store and the writes left as they were, and the store going
\* on, it is a call of that getter.
Got(kind, key) == returned'.op = kind /\ returned'.key = key /\ pc' = "store"

\* C23: after setters that returned, on a key of one kind and with write_times
\* that differ from one another, the getter of that kind returns the value of
\* the last of them: that is what get_*_data answers for the store every step
\* leaves, and what a call of it returned in the step.
C23_LastWriteWins ==
    [][pc' = "store" =>
        \A kind \in Kinds : \A key \in StoreKeys :
            (/\ WritesTo(kind, key)' # {}
             /\ \A i, j \in WritesTo(kind, key)' : i # j => writes'[i].time # writes'[j].time) =>
                /\ Store_get_data(store'[kind], key)
                      = [value |-> <<writes'[LastWrite(kind, key)'].value>>, err |-> ""]
                /\ (Got(kind, key) /\ store' = store /\ writes' = writes) =>
                        /\ returned'.err = ""
                        /\ returned'.value = <<writes'[LastWrite(kind, key)'].value>>]_vars

\* has_new_value, for any key: it was written at one time and then, with
\* another value, at another, and the getter returned the second value.
C23_Witness ==
    /\ pc = "store"
    /\ Len(writes) = 2
    /\ writes[1].kind = writes[2].kind
    /\ writes[1].key = writes[2].key
    /\ writes[1].time # writes[2].time
    /\ writes[1].value # writes[2].value
    /\ returned = Returned(writes[2].kind, writes[2].key, <<writes[2].value>>, "")

\* A step that is a call of the getter of the kind for the key: a setter that
\* returns adds to writes, and one that does not panics with AlreadySet.
GetterStep(kind, key) ==
    /\ writes' = writes
    /\ error' # "AlreadySet"
    /\ returned'.op = kind
    /\ returned'.key = key

\* C24: a getter of a kind, called for a key that has no entry of that kind
\* (never set, or set as another kind only), panics with MissingKey, and a
\* getter leaves the store as it was, panic or not; for a key that has an entry
\* it returns the entry's value.  contains(key) is true exactly of the keys
\* that were written, as whatever kind: those some getter returns a value for.
C24_MissingKey ==
    [][/\ \A kind \in Kinds : \A key \in StoreKeys :
             GetterStep(kind, key) =>
                /\ store' = store
                /\ IF key \in DOMAIN store[kind]
                   THEN error' = "" /\ pc' = "store" /\ returned'.err = ""
                        /\ returned'.value = <<store[kind][key].value>>
                   ELSE error' = "MissingKey" /\ pc' = "fatal" /\ returned'.err = "MissingKey"
                        /\ returned'.value = <<>>
       /\ error' = "MissingKey" => store' = store
       /\ \A key \in StoreKeys :
             /\ Store_contains(store', key) <=> \E i \in 1 .. Len(writes') : writes'[i].key = key
             /\ Store_contains(store', key)
                  <=> \E kind \in Kinds : Store_get_data(store'[kind], key).err = ""]_vars

\* get_int_data panicked for a key that was set as a float only, and which the
\* store contains.
C24_Witness ==
    /\ pc = "fatal"
    /\ error = "MissingKey"
    /\ returned.op = "int_data"
    /\ returned.key \in DOMAIN store.float_data
    /\ returned.key \notin DOMAIN store.int_data
    /\ Store_contains(store, returned.key)

-----------------------------------------------------------------------------
(* A Store with its edition, written through set_int, set_float and          *)
(* set_string.  The edition it starts with is one that writes before have    *)
(* left: none, or as many as bring the u32 to its end.                        *)

EditionKeys == StoreKeys \cup {""}

EditionStarts == {U32_from(0), <<Limb - 2, Limb - 1>>, U32_MAX}

InitEdition ==
    /\ components = Components_new
    /\ event_senders = <<>>
    /\ effector_receivers = <<>>
    /\ config = Config(1, INFINITY, 1)
    /\ program = "basic"
    /\ current_time = Time(0)
    /\ exited = "None"
    /\ scheduled = EmptyBag
    /\ event_num = 0
    /\ finger_print = U64_from(0)
    /\ store = Store_new
    /\ pc = "store"
    /\ stage = 0
    /\ ids = <<>>
    /\ inbox = <<>>
    /\ outbox = <<>>
    /\ worker = <<>>
    /\ error = ""
    /\ pass_store = Store_new
    /\ popped = <<>>
    /\ applied = <<>>
    /\ printed = <<>>
    /\ init_log = <<>>
    /\ budget = 0
    /\ writes = <<>>
    /\ ports = Ports_new
    /\ spawned = {}
    /\ edition \in EditionStarts
    /\ returned = NoReturn
    /\ held_event = Event_new("")

\* One call of set_int, set_float or set_string; writes notes the call if it returned.
SetValue(kind, key, value, time) ==
    LET set == Store_set(store[kind], key, value, time)
    IN  /\ pc = "store"
        /\ Len(writes) < MaxWrites
        /\ time >= current_time
        /\ current_time' = time
        /\ store' = [store EXCEPT ![kind] = set.map]
        /\ edition' = Store_edition(store[kind], edition, key, value, time)
        /\ error' = set.err
        /\ pc' = IF set.err # "" THEN "fatal" ELSE "store"
        /\ writes' = IF set.err # "" THEN writes
                     ELSE Append(writes, [kind |-> kind, key |-> key, value |-> value, time |-> time])
        /\ UNCHANGED <<components, event_senders, effector_receivers, config, program, exited,
                       scheduled, event_num, finger_print, stage, ids, inbox, outbox, worker,
                       pass_store, popped, applied, printed, init_log, budget, ports, spawned,
                       returned, held_event>>

\* Store::set_int
SetInt == \E key \in EditionKeys, value \in IntValues, time \in StoreTimes : SetValue("int_data", key, value, time)

\* Store::set_float
SetFloat == \E key \in EditionKeys, value \in FloatValues, time \in StoreTimes : SetValue("float_data", key, value, time)

\* Store::set_string
SetString == \E key \in EditionKeys, value \in StringValues, time \in StoreTimes : SetValue("string_data", key, value, time)

NextEdition ==
    \/ SetInt
    \/ SetFloat
    \/ SetString

SpecEdition == InitEdition /\ [][NextEdition]_vars

\* A step that left some key with a value it did not have.
ValueChanged ==
    \E kind \in Kinds : \E key \in DOMAIN store'[kind] :
        key \notin DOMAIN store[kind] \/ store'[kind][key].value # store[kind][key].value

\* The number after e among the numbers below 2^32, 0 after the last.
Successor(e) ==
    CASE e = U32_MAX -> <<0, 0>>
      [] e # U32_MAX /\ e[1] = Limb - 1 -> <<0, e[2] + 1>>
      [] OTHER -> <<e[1] + 1, e[2]>>

-----------------------------------------------------------------------------
(* The scheduler dispatches in time order *)

\* A step of dispatch_events that popped entries.
Dispatched == popped' # popped /\ popped' # <<>>

\* C1: entries with an earlier time are dispatched strictly before entries with
\* a later time.  Every dispatch pass pops entries of one time, the new
\* current_time, and unless it panics on the way leaves only later entries in
\* the scheduler; current_time never decreases from one step to the next,
\* and no entry of the scheduler is
\* ever earlier than current_time, so none is dispatched before an instant
\* that was already dispatched.
C1_TimeOrder ==
    [][/\ current_time' >= current_time
       /\ \A e \in BagToSet(scheduled') : e.time >= current_time'
       /\ Dispatched => \A i \in 1 .. Len(popped') : popped'[i].time = current_time'
       /\ (Dispatched /\ error' = "") =>
             \A e \in BagToSet(scheduled') : e.time > current_time']_vars

\* A pass of the main loop was dispatched at a later time than the one before,
\* while an entry of a still later time waits in the scheduler.
C1_Witness ==
    /\ pc = "collect"
    /\ current_time > 1
    /\ Len(popped) > 0
    /\ \E e \in BagToSet(scheduled) : e.time > current_time

-----------------------------------------------------------------------------
(* An instant is atomic *)

\* C2: while the Effector of some entry dispatched in the pass is still
\* missing, the kernel applies nothing: the store, the scheduler, exited and
\* the channels (which a remove replaces) stay as they are.  Hence every
\* thread that holds a state holds the store as it was when the pass began,
\* however the threads interleave.
C2_InstantAtomic ==
    [][/\ (pc = "collect" /\ \E i \in 1 .. Len(ids) : ~Arrived(i)) =>
             UNCHANGED <<store, scheduled, exited, event_senders, effector_receivers>>
       /\ \A c \in DOMAIN worker' : worker'[c].holding => worker'[c].seen = pass_store'
       /\ pc' = "collect" => store' = pass_store']_vars

\* One thread has sent an Effector that is not empty while another still holds
\* the state of the same pass, after an earlier pass wrote the store.
C2_Witness ==
    /\ pc = "collect"
    /\ pass_store # Store_new
    /\ \E a, b \in DOMAIN worker :
          /\ a # b
          /\ Len(outbox[a]) > 0
          /\ outbox[a][1] # Effector_new
          /\ worker[b].holding
          /\ worker[b].status = "busy"

-----------------------------------------------------------------------------
(* The store is never written while a snapshot is alive *)

\* C3: when the kernel has the Effector of every entry of the pass, and so
\* starts to apply, no SimState of the pass is alive: none waits in a channel
\* and no thread holds one.  The expect on Arc::get_mut in apply_stores and in
\* remove_components never fails.
C3_NoSnapshotAtApply ==
    /\ error # "StoreShared"
    /\ (pc = "collect" /\ \A i \in 1 .. Len(ids) : Arrived(i)) =>
          /\ \A c \in DOMAIN inbox : Len(inbox[c]) = 0
          /\ \A c \in DOMAIN worker : ~worker[c].holding

\* A pass of two or more Effectors was applied, one with a store write and
\* one with a remove, and the kernel did not panic.
C3_Witness ==
    /\ error = ""
    /\ Len(applied) >= 2
    /\ \E i \in 1 .. Len(applied) : applied[i][2].store.int_data # EmptyMap
    /\ \E i \in 1 .. Len(applied) : applied[i][2].removed

-----------------------------------------------------------------------------
(* Initialization *)

\* The init stages whose events dispatch_events has sent.
StagesSent == IF pc = "collect" /\ stage < config.num_init_stages THEN stage + 1 ELSE stage

\* C5: every active component is sent "init k" once for every stage k, at
\* time 0 and in the order of k: what it has been sent is "init 0", "init 1",
\* ... up to the stage the kernel has reached, and all of them when
\* initialization is over.  current_time is 0 all through initialization and
\* when it ends.
C5_InitStages ==
    [][/\ stage' < config.num_init_stages => current_time' = 0
       /\ (pc = "collect" /\ stage < config.num_init_stages /\ pc' = "main") =>
             /\ current_time' = 0
             /\ stage' = config.num_init_stages
       /\ (pc' = "main" /\ error' = "") => StagesSent' = config.num_init_stages
       /\ error' = "" =>
             \A c \in spawned' :
                init_log'[c + 1] = [k \in 1 .. StagesSent' |-> <<"init " \o ToString(k - 1), 0>>]]_vars

\* Initialization of two stages is over for two active components, and a
\* handler scheduled an event while it ran.
C5_Witness ==
    /\ pc = "main"
    /\ error = ""
    /\ config.num_init_stages = 2
    /\ current_time = 0
    /\ ~Heap_is_empty(scheduled)
    /\ \E a, b \in DOMAIN init_log :
          /\ a # b
          /\ init_log[a] = <<(<<"init 0", 0>>), (<<"init 1", 0>>)>>
          /\ init_log[b] = <<(<<"init 0", 0>>), (<<"init 1", 0>>)>>

-----------------------------------------------------------------------------
(* The main loop *)

RECURSIVE Shl(_, _)
Shl(x, k) == IF k = 0 THEN x ELSE Shl(2 * x, k - 1)

\* A turn of the main loop: the only step there is while pc = "main" and
\* exited is none.
MainLoopTurn == pc = "main" /\ exited = "None" /\ vars' # vars

\* now >= max_secs * time_units, on the reals
ReachedMaxSecs == ~config.max_secs.inf /\ Shl(current_time, config.max_secs.exp) >=
                                          config.max_secs.num * config.time_units

\* now >= max_time, which is max_secs * time_units cut to an integer, and the
\* largest integer when max_secs is infinite
ReachedMaxTime ==
    current_time >= (IF config.max_secs.inf THEN 2147483647
                     ELSE Shr(config.max_secs.num * config.time_units, config.max_secs.exp))

OnePass == /\ exited' = "None"
           /\ pc' \in {"collect", "fatal"}
           /\ event_num' > event_num
           /\ Len(popped') > 0

NoPass == pc' = "main" /\ event_num' = event_num /\ scheduled' = scheduled

\* C6 as the specification states it: the reason of the second case is
\* "reached max_secs" and its condition current_time >= max_secs * time_units.
C6_AsStated ==
    [][/\ MainLoopTurn =>
             IF Heap_is_empty(scheduled) THEN exited' = "no events" /\ NoPass
             ELSE IF ReachedMaxSecs THEN exited' = "reached max_secs" /\ NoPass
             ELSE OnePass
       /\ exited' \in {"None", "no events", "reached max_secs", "effector.exit was called",
                        "Effector.exit was called during initialization"}]_vars

\* C6, amended: every turn of the main loop does exactly one of three things.
\* If the scheduler is empty it sets exited to "no events"; otherwise, if
\* current_time >= max_time, it sets exited to "reached config.max_secs",
\* where max_time is max_secs * time_units cut to an integer (the largest
\* integer for an infinite max_secs); otherwise it runs one dispatch pass.
\* The empty scheduler comes first.  No other reason is ever set than these
\* two, "effector.exit was called" and "Effector.exit was called during
\* initialization".
C6_MainLoop ==
    [][/\ MainLoopTurn =>
             IF Heap_is_empty(scheduled) THEN exited' = "no events" /\ NoPass
             ELSE IF ReachedMaxTime THEN exited' = "reached config.max_secs" /\ NoPass
             ELSE OnePass
       /\ exited' \in {"None", "no events", "reached config.max_secs", "effector.exit was called",
                        "Effector.exit was called during initialization"}]_vars

\* The main loop has ended one run on max_secs, with entries left in the
\* scheduler, at a current_time below max_secs * time_units.
C6_Witness ==
    /\ pc = "done"
    /\ exited = "reached config.max_secs"
    /\ ~Heap_is_empty(scheduled)
    /\ ~ReachedMaxSecs

-----------------------------------------------------------------------------
(* exit *)

\* The pass of the main loop ends: its effects were applied without a panic.
MainPassApplied ==
    /\ pc = "collect"
    /\ stage = config.num_init_stages
    /\ pc' = "main"

\* What an applied Effector of component id leaves: its events are in the
\* scheduler, its writes in the store under the path of id at current_time,
\* and if it removes, id has the drop-all thread and its removed key.
EffectorApplied(id, e) ==
    /\ \A i \in 1 .. Len(e.events) :
          ScheduledEvent(e.events[i][2], e.events[i][1], add_secs(e.events[i][3]))
             \in BagToSet(scheduled')
    /\ \A name \in DOMAIN e.store.int_data :
          LET key == Components_full_path(components, id) \o "." \o name
          IN  /\ key \in DOMAIN store'.int_data
              /\ store'.int_data[key].time = current_time
              /\ \E j \in 1 .. Len(applied') :
                    /\ applied'[j][1] = id
                    /\ name \in DOMAIN applied'[j][2].store.int_data
                    /\ applied'[j][2].store.int_data[name].value = store'.int_data[key].value
    /\ e.removed =>
          /\ event_senders'[id + 1] = "no_op"
          /\ Components_full_path(components, id) \o ".removed" \in DOMAIN store'.int_data

\* C7: when an Effector of an instant of the main loop has the exit flag, the
\* effects of every Effector of the instant are applied all the same, those
\* of components with larger IDs too, and exited is "effector.exit was
\* called".  Once the main loop has a reason to exit nothing is dispatched
\* any more: the scheduler, the store and current_time stay as they are.
C7_ExitAfterInstant ==
    [][/\ (MainPassApplied /\ \E i \in 1 .. Len(applied') : applied'[i][2].exit) =>
             /\ exited' = "effector.exit was called"
             /\ \A i \in 1 .. Len(applied') : EffectorApplied(applied'[i][1], applied'[i][2])
       /\ (pc \in {"main", "done"} /\ exited # "None") =>
             /\ pc' \in {"main", "done"}
             /\ UNCHANGED <<scheduled, store, current_time, event_num, finger_print, popped, inbox>>]_vars

\* The run is over on an exit of the main loop; in the instant of the exit a
\* component with a larger ID than the exiting one scheduled an event, which
\* is still in the scheduler.
C7_Witness ==
    /\ pc = "done"
    /\ exited = "effector.exit was called"
    /\ current_time > 0
    /\ ~Heap_is_empty(scheduled)
    /\ \E i, j \in 1 .. Len(applied) :
          /\ applied[i][1] < applied[j][1]
          /\ applied[i][2].exit
          /\ applied[j][2].events # <<>>

-----------------------------------------------------------------------------
(* exit during initialization *)

\* The pass of an init stage ends: its effects were applied without a panic.
InitPassApplied ==
    /\ pc = "collect"
    /\ stage < config.num_init_stages
    /\ pc' \in {"init", "main"}

ExitedInInit == "Effector.exit was called during initialization"

\* C8: when an Effector of an init stage has the exit flag, the pass of the
\* stage completes, every Effector of it applied, and exited is "Effector.exit
\* was called during initialization" from then on.  The stages that remain
\* are scheduled and dispatched all the same, to every component with a
\* thread of its own, and the main loop then dispatches nothing.
C8_ExitInInit ==
    [][/\ (InitPassApplied /\ \E i \in 1 .. Len(applied') : applied'[i][2].exit) =>
             /\ exited' = ExitedInInit
             /\ \A i \in 1 .. Len(applied') : EffectorApplied(applied'[i][1], applied'[i][2])
             /\ stage' = stage + 1
             /\ pc' = IF stage + 1 < config.num_init_stages THEN "init" ELSE "main"
       /\ (InitPassApplied /\ exited # "None") => exited' = ExitedInInit
       /\ (pc = "init" /\ exited # "None" /\ vars' # vars) =>
             /\ exited' = ExitedInInit
             /\ pc' \in {"collect", "fatal"}
             /\ \A i \in 1 .. Len(popped') :
                   popped'[i].event.name = "init " \o ToString(stage)
             /\ error' = "" => \A c \in spawned : \E i \in 1 .. Len(popped') : popped'[i].to = c
       /\ (pc \in {"main", "done"} /\ exited = ExitedInInit) =>
             /\ event_num' = event_num
             /\ popped' = popped
             /\ exited' = ExitedInInit]_vars

\* The run is over on an exit of the first of two init stages: the second
\* stage was dispatched, without an exit of its own, and what the handlers
\* scheduled is still in the scheduler.
C8_Witness ==
    /\ pc = "done"
    /\ exited = ExitedInInit
    /\ config.num_init_stages = 2
    /\ Len(popped) > 0
    /\ \A i \in 1 .. Len(popped) : popped[i].event.name = "init 1"
    /\ \A i \in 1 .. Len(applied) : ~applied[i][2].exit
    /\ ~Heap_is_empty(scheduled)

-----------------------------------------------------------------------------
(* The time of a scheduled event *)

\* A pass ends: its effects were applied without a panic.
PassApplied == pc = "collect" /\ pc' \in {"init", "main"}

\* floor(secs * time_units), by what a floor is: the f with
\* f <= secs * time_units < f + 1.
Floor(secs) ==
    CHOOSE f \in 0 .. (secs.num * config.time_units) :
        /\ Shl(f, secs.exp) <= secs.num * config.time_units
        /\ secs.num * config.time_units < Shl(f + 1, secs.exp)

Max(a, b) == IF a >= b THEN a ELSE b

\* The ticks after current_time at which an event scheduled with secs is due.
\* schedule_immediately gives it 2^-52 s, far less than a tick.
Due(secs) == IF secs = Secs(1, 52) THEN 1 ELSE Max(1, Floor(secs))

RECURSIVE CountEvents(_)
CountEvents(es) == IF Len(es) = 0 THEN 0 ELSE Len(Head(es)[2].events) + CountEvents(Tail(es))

\* C9: every event of an Effector applied at current_time is pushed with the
\* time current_time + max(1, floor(secs * time_units)), which for
\* schedule_immediately is current_time + 1; nothing else is pushed; and so
\* after the pass every entry of the scheduler is later than current_time:
\* no event is delivered in the instant that scheduled it.
C9_DeliveryTime ==
    [][PassApplied =>
          /\ \A i \in 1 .. Len(applied') :
                \A j \in 1 .. Len(applied'[i][2].events) :
                   LET ev == applied'[i][2].events[j]
                   IN  ScheduledEvent(ev[2], ev[1], current_time + Due(ev[3]))
                          \in BagToSet(scheduled')
          /\ BagCardinality(scheduled') = BagCardinality(scheduled) + CountEvents(applied')
          /\ \A e \in BagToSet(scheduled') :
                e \in BagToSet(scheduled) \/ \E i \in 1 .. Len(applied') :
                   \E j \in 1 .. Len(applied'[i][2].events) :
                      LET ev == applied'[i][2].events[j]
                      IN  e = ScheduledEvent(ev[2], ev[1], current_time + Due(ev[3]))
          /\ \A e \in BagToSet(scheduled') : e.time > current_time']_vars

\* A pass after time 0 applied an Effector of schedule_immediately and one of
\* schedule_after_secs(1.25) with two ticks to the second: the one event is
\* due a tick later, the other two ticks later.
C9_Witness ==
    /\ pc = "main"
    /\ error = ""
    /\ current_time > 0
    /\ config.time_units = 2
    /\ \E i, j \in 1 .. Len(applied) :
          /\ Len(applied[i][2].events) > 0
          /\ applied[i][2].events[1][3] = Secs(1, 52)
          /\ ScheduledEvent(applied[i][2].events[1][2], applied[i][2].events[1][1],
                            current_time + 1) \in BagToSet(scheduled)
          /\ Len(applied[j][2].events) > 0
          /\ applied[j][2].events[1][3] = Secs(5, 2)
          /\ ScheduledEvent(applied[j][2].events[1][2], applied[j][2].events[1][1],
                            current_time + 2) \in BagToSet(scheduled)

-----------------------------------------------------------------------------
(* remove *)

\* id and everything below it in the tree.
RECURSIVE Below(_)
Below(id) ==
    {id} \cup UNION {Below(Components_get(components, id).children[i]) :
                        i \in 1 .. Len(Components_get(components, id).children)}

RemovedKey(id) == Components_full_path(components, id) \o ".removed"

\* C10: when the Effector of component P applied at time T has the removed
\* flag, after the pass the store holds <path>.removed = 1 with write time T
\* for P and for every component below P, and each of them has the drop-all
\* thread behind fresh channels.  A component that has the drop-all thread
\* keeps it, and its removed key stays in the store with value 1.
C10_RemoveCascades ==
    [][/\ PassApplied =>
             \A i \in 1 .. Len(applied') :
                applied'[i][2].removed =>
                   \A d \in Below(applied'[i][1]) :
                      /\ RemovedKey(d) \in DOMAIN store'.int_data
                      /\ store'.int_data[RemovedKey(d)] = Entry(current_time, 1)
                      /\ event_senders'[d + 1] = "no_op"
                      /\ effector_receivers'[d + 1] = "no_op"
       /\ \A d \in ComponentIDs(components) :
             (event_senders[d + 1] = "no_op" /\ error = "") =>
                /\ event_senders'[d + 1] = "no_op"
                /\ RemovedKey(d) \in DOMAIN store'.int_data
                /\ store'.int_data[RemovedKey(d)].value = 1]_vars

\* In a chain of three components the root was removed, at a time that has
\* passed since: all three have their removed key, written at that time, and
\* the drop-all thread.
C10_Witness ==
    /\ error = ""
    /\ Len(components) = 3
    /\ components[2].parent = 0
    /\ components[3].parent = 1
    /\ \A d \in 0 .. 2 :
          /\ event_senders[d + 1] = "no_op"
          /\ RemovedKey(d) \in DOMAIN store.int_data
          /\ store.int_data[RemovedKey(d)].value = 1
          /\ store.int_data[RemovedKey(d)].time = store.int_data["a.removed"].time
          /\ store.int_data[RemovedKey(d)].time < current_time
    /\ "a.b.c.removed" \in DOMAIN store.int_data

-----------------------------------------------------------------------------
(* A removed component *)

\* id was removed: its removed key is in the store.
WasRemoved(st, id) == RemovedKey(id) \in DOMAIN st.int_data

\* The thread behind the channels of id puts an Effector into its channel.
Answers(id) == /\ Len(outbox'[id + 1]) = Len(outbox[id + 1]) + 1
               /\ pc' = pc

\* C11: once a component is removed, every event sent to it is taken by the
\* drop-all thread, which answers with Effector::new(): no logs, no events,
\* no store patch, exit and removed false.  The handlers of the component
\* never run again (nothing is taken from the budget of handler answers, and
\* its thread neither panics nor stalls), so the pass completes; applying the
\* answer leaves the store and the scheduler as they are: a pass with only
\* removed targets changes neither, nor exited, and does not panic.
C11_RemovedIsSilent ==
    [][/\ \A id \in ComponentIDs(components) :
             WasRemoved(store, id) =>
                /\ Answers(id) =>
                      /\ outbox'[id + 1][Len(outbox'[id + 1])] = Effector_new
                      /\ budget' = budget
                /\ worker'[id + 1].status \in {"idle", "busy"}
                /\ WasRemoved(store', id)
       /\ PassApplied =>
             /\ \A i \in 1 .. Len(applied') :
                   WasRemoved(store, applied'[i][1]) =>
                      /\ applied'[i][2] = Effector_new
                      /\ apply_effects(Kernel, applied'[i][1], applied'[i][2]) = Kernel
             /\ (\A i \in 1 .. Len(applied') : WasRemoved(store, applied'[i][1])) =>
                   /\ store' = store
                   /\ scheduled' = scheduled
                   /\ exited' = exited
                   /\ error' = ""]_vars

\* A component was removed at an earlier time; a later pass sent it an event,
\* got the empty Effector back and applied it without a panic.
C11_Witness ==
    /\ pc = "main"
    /\ error = ""
    /\ \E i \in 1 .. Len(applied) :
          /\ WasRemoved(pass_store, applied[i][1])
          /\ pass_store.int_data[RemovedKey(applied[i][1])].time < current_time
          /\ applied[i][2] = Effector_new
          /\ \E j \in 1 .. Len(popped) : popped[j].to = applied[i][1] /\ popped[j].event.name = "ping"

-----------------------------------------------------------------------------
(* remove takes effect after the Effector's own effects *)

\* The step in which dispatch_events applies the Effectors it received.
Applying == pc = "collect" /\ AllReceived /\ pc' # "collect"

\* The i-th Effector applied is the one that removed its component: the
\* component had its own thread before and has the drop-all thread after, and
\* no Effector applied before it removed the component or an ancestor of it.
RemovedHere(i) ==
    LET id == applied'[i][1]
    IN  /\ applied'[i][2].removed
        /\ event_senders[id + 1] # "no_op"
        /\ event_senders'[id + 1] = "no_op"
        /\ \A j \in 1 .. (i - 1) : ~(applied'[j][2].removed /\ id \in Below(applied'[j][1]))

\* C12: when an Effector removes its component, its logs have been printed,
\* its events are in the scheduler and its store patch is in the store, under
\* the path of the component and at current_time, by the time the component
\* has the drop-all thread; this is so even when the pass panics on the way,
\* so the three are applied before the component is replaced.  When the pass
\* completes the removed key is written at current_time too, and the events
\* the Effector scheduled are in the scheduler after the pass.
C12_RemoveAfterEffects ==
    [][Applying =>
          \A i \in 1 .. Len(applied') :
             RemovedHere(i) =>
                LET id == applied'[i][1]
                    e == applied'[i][2]
                IN  /\ \A n \in 1 .. Len(e.logs) :
                          \E m \in 1 .. Len(printed') : printed'[m] = <<id, e.logs[n].message>>
                    /\ \A n \in 1 .. Len(e.events) :
                          ScheduledEvent(e.events[n][2], e.events[n][1], add_secs(e.events[n][3]))
                             \in BagToSet(scheduled')
                    /\ \A name \in DOMAIN e.store.int_data :
                          LET key == Components_full_path(components, id) \o "." \o name
                          IN  /\ key \in DOMAIN store'.int_data
                              /\ store'.int_data[key] = Entry(current_time, e.store.int_data[name].value)
                    /\ error' = "" => /\ WasRemoved(store', id)
                                      /\ store'.int_data[RemovedKey(id)] = Entry(current_time, 1)]_vars

\* A pass applied an Effector that logs, schedules a tick for its own
\* component, writes x and removes: the line is printed, the tick is in the
\* scheduler, x is in the store and the component has the drop-all thread.
C12_Witness ==
    /\ pc = "main"
    /\ error = ""
    /\ \E i \in 1 .. Len(applied) :
          LET id == applied[i][1]
              e == applied[i][2]
          IN  /\ e.removed
              /\ Len(e.logs) > 0 /\ Len(e.events) > 0 /\ DOMAIN e.store.int_data # {}
              /\ <<id, "bye">> \in {printed[m] : m \in 1 .. Len(printed)}
              /\ \E s \in BagToSet(scheduled) : s.to = id /\ s.event.name = "tick"
              /\ store.int_data[Components_full_path(components, id) \o ".x"] = Entry(current_time, 2)
              /\ store.int_data[RemovedKey(id)] = Entry(current_time, 1)
              /\ event_senders[id + 1] = "no_op"

-----------------------------------------------------------------------------
(* The order in which the Effectors of a pass are applied *)

\* The lines apply_logs prints for an Effector of id.
LinesOf(id, e) == [n \in 1 .. Len(e.logs) |-> <<id, e.logs[n].message>>]

\* The lines of the Effectors of id, in the order of the turns of the receive
\* loop: the order in which the events of id were dispatched.
RECURSIVE LinesFor(_, _)
LinesFor(id, i) ==
    IF i > Len(ids) THEN <<>>
    ELSE IF ids[i] = id
         THEN LinesOf(id, outbox[id + 1][Occurrence(i)]) \o LinesFor(id, i + 1)
    ELSE LinesFor(id, i + 1)

\* The lines of every component, the components in ascending order of ID.
RECURSIVE LinesFrom(_)
LinesFrom(id) == IF id >= Len(components) THEN <<>> ELSE LinesFor(id, 1) \o LinesFrom(id + 1)

IsPrefix(a, b) == Len(a) <= Len(b) /\ SubSeq(b, 1, Len(a)) = a

\* C13: the Effectors of a pass are applied in ascending order of component
\* ID, and those of one component in the order in which its events were
\* dispatched, whatever the order in which the entries were popped and the
\* threads answered: the lines the pass prints are the lines of the
\* components in ascending ID, each component's in dispatch order (up to the
\* panic, when the pass panics), and the Effectors applied are sorted by ID.
C13_AppliedInIdOrder ==
    [][Applying =>
          /\ IsPrefix(printed', LinesFrom(0))
          /\ error' = "" => printed' = LinesFrom(0)
          /\ \A i, j \in 1 .. Len(applied') : i < j => applied'[i][1] <= applied'[j][1]
          /\ \A id \in ComponentIDs(components) :
                LET mine == {i \in 1 .. Len(ids) : ids[i] = id}
                IN  \A i \in mine :
                       \E m \in 1 .. Len(applied') :
                          /\ applied'[m] = <<id, outbox[id + 1][Occurrence(i)]>>
                          /\ Cardinality({n \in 1 .. m : applied'[n][1] = id}) = Occurrence(i)]_vars

\* A pass popped an entry of a larger ID before one of a smaller ID, and two
\* entries of one component; it printed the lines of the smaller ID first,
\* and the two lines of the one component in the order of its answers.
C13_Witness ==
    /\ pc = "main"
    /\ error = ""
    /\ \E i, j \in 1 .. Len(popped) : i < j /\ popped[i].to > popped[j].to
    /\ \E m, n \in 1 .. Len(printed) : m < n /\ printed[m][1] < printed[n][1]
    /\ \E m \in 1 .. (Len(printed) - 1) :
          /\ printed[m][1] = printed[m + 1][1]
          /\ printed[m][2] # printed[m + 1][2]
          /\ \E a \in 1 .. (Len(applied) - 1) :
                /\ applied[a][1] = printed[m][1]
                /\ applied[a + 1][1] = printed[m][1]
                /\ LinesOf(applied[a][1], applied[a][2]) = <<printed[m]>>
                /\ LinesOf(applied[a + 1][1], applied[a + 1][2]) = <<printed[m + 1]>>

-----------------------------------------------------------------------------
(* The order of application does not matter *)

\* The Effectors of a pass as a bag; Orders gives the orders it can be taken in.
RECURSIVE BagOf(_)
BagOf(es) == IF Len(es) = 0 THEN EmptyBag ELSE SetToBag({Head(es)}) (+) BagOf(Tail(es))

\* What applying the Effectors es to the simulation k comes to: a panic, or
\* the store, the scheduler, the components with the drop-all thread and exited.
Outcome(k, es) ==
    LET done == apply_all(k, es)
    IN  IF done.error # "" THEN [fatal |-> done.error]
        ELSE [store |-> done.store, scheduled |-> done.scheduled, exited |-> done.exited,
              removed |-> {id \in ComponentIDs(components) : done.event_senders[id + 1] = "no_op"}]

\* C14: whatever the order in which the Effectors of an instant are applied,
\* the outcome is the one of the order the kernel uses: the same store, the
\* same entries in the scheduler, the same removed components and the same
\* exited; or the panic AlreadySet in every order.  What the pass leaves is
\* that outcome.
C14_OrderIndependent ==
    [][Applying =>
          LET effects == Received(1)
              k == [Kernel EXCEPT !.outbox = Drained(effects)]
              sorted == Outcome(k, sort_by_id(effects))
          IN  /\ \A order \in Orders(BagOf(effects)) : Outcome(k, order) = sorted
              /\ error' # "" => sorted = [fatal |-> "AlreadySet"] /\ error' = "AlreadySet"
              /\ error' = "" =>
                    /\ sorted.store = store'
                    /\ sorted.scheduled = scheduled'
                    /\ sorted.removed = {id \in ComponentIDs(components) :
                                            event_senders'[id + 1] = "no_op"}
                    /\ InitExited(sorted.exited) = InitExited(exited')]_vars

\* A pass applied three Effectors or more without a panic: two of one
\* component wrote the same key with the same value, one of them removed the
\* component and scheduled an event, and another component answered too.
C14_Witness ==
    /\ pc = "main"
    /\ error = ""
    /\ Len(applied) >= 3
    /\ \E a, b, c \in 1 .. Len(applied) :
          /\ a # b
          /\ applied[a][1] = applied[b][1]
          /\ applied[c][1] # applied[a][1]
          /\ "x" \in DOMAIN applied[a][2].store.int_data
          /\ "x" \in DOMAIN applied[b][2].store.int_data
          /\ applied[b][2].removed
          /\ ~applied[a][2].removed
          /\ Len(applied[b][2].events) > 0

-----------------------------------------------------------------------------
(* The finger print on its own: update_finger_print over entries of any      *)
(* name, port, payload, target and time, the largest time included.          *)

MaxFinger == 3

FingerNames == {"a", "12345678", "12345678zz"}

FingerTimes == {Time(3), I64_MAX}

FingerTargets == {0, 2}

FingerEvents ==
    {Event_new(name) : name \in FingerNames}
        \cup {Event_with_port_payload(name, "in", Some("i32", "7")) : name \in FingerNames}

FingerEntries ==
    {ScheduledEvent(event, to, time) : event \in FingerEvents, to \in FingerTargets, time \in FingerTimes}

InitFinger ==
    /\ components = Components_new
    /\ event_senders = <<>>
    /\ effector_receivers = <<>>
    /\ config = Config(1, INFINITY, 1)
    /\ program = "basic"
    /\ current_time = Time(0)
    /\ exited = "None"
    /\ scheduled = EmptyBag
    /\ event_num = 0
    /\ finger_print = U64_from(0)
    /\ store = Store_new
    /\ pc = "finger"
    /\ stage = 0
    /\ ids = <<>>
    /\ inbox = <<>>
    /\ outbox = <<>>
    /\ worker = <<>>
    /\ error = ""
    /\ pass_store = Store_new
    /\ popped = <<>>
    /\ applied = <<>>
    /\ printed = <<>>
    /\ init_log = <<>>
    /\ budget = 0
    /\ writes = <<>>
    /\ ports = Ports_new
    /\ spawned = {}
    /\ edition = U32_from(0)
    /\ returned = NoReturn
    /\ held_event = Event_new("")

\* One entry popped by dispatch_events: the finger print takes it in; popped
\* keeps every entry so far.
UpdateFingerPrint ==
    \E e \in FingerEntries :
        /\ pc = "finger"
        /\ Len(popped) < MaxFinger
        /\ finger_print' = update_finger_print(finger_print, e)
        /\ popped' = Append(popped, e)
        /\ event_num' = event_num + 1
        /\ UNCHANGED <<components, event_senders, effector_receivers, config, program, current_time,
                       exited, scheduled, store, pc, stage, ids, inbox, outbox, worker, error,
                       pass_store, applied, printed, init_log, budget, writes, ports, spawned,
                       edition, returned, held_event>>

NextFinger == UpdateFingerPrint

SpecFinger == InitFinger /\ [][NextFinger]_vars

\* The sum of the first min(8, len) bytes of a name, as a plain integer.
FirstBytes(name) ==
    LET bytes == Bytes(name)
        RECURSIVE upto(_)
        upto(i) == IF i = 0 THEN 0 ELSE bytes[i] + upto(i - 1)
    IN  upto(Min(8, Len(bytes)))

\* What the entries add up to without their largest times, and how many of them have the largest time.
RECURSIVE SmallSum(_)
SmallSum(es) ==
    IF Len(es) = 0 THEN 0
    ELSE (IF Head(es).time = I64_MAX THEN 0 ELSE Head(es).time) + Head(es).to
            + FirstBytes(Head(es).event.name) + SmallSum(Tail(es))

RECURSIVE Largest(_)
Largest(es) ==
    IF Len(es) = 0 THEN 0 ELSE (IF Head(es).time = I64_MAX THEN 1 ELSE 0) + Largest(Tail(es))

\* The sum of time + target + first bytes over the entries, modulo 2^64, in
\* closed form: n times 2^63 - 1 is (n mod 2) * 2^63 - n modulo 2^64, and the
\* rest of the sum is at least n and far below 2^63.
SumMod64(es) ==
    LET rest == SmallSum(es) - Largest(es)
    IN  <<rest % Limb, (rest \div Limb) % Limb, (rest \div Limb) \div Limb,
          (Largest(es) % 2) * 32768>>

\* The events whose names have the first eight bytes of the name of the given
\* one, whatever their later bytes, port and payload.
SameFirstBytes(event) ==
    {other \in FingerEvents : Take(Bytes(other.name), 8) = Take(Bytes(event.name), 8)}

\* C16: the finger print starts at zero and is, modulo 2^64, the sum over the
\* entries dispatched so far of time + target id + the first min(8, len) bytes
\* of the event name, one update for each entry; the sums into an entry's
\* delta stay below 2^64 and the sum into the finger print wraps; bytes of
\* the name beyond the eighth, the port tag and the payload do not count.
C16_FingerPrintIsTheSum ==
    /\ pc = "finger" =>
        /\ event_num = Len(popped)
        /\ finger_print = SumMod64(popped)
        /\ popped = <<>> => finger_print = <<0, 0, 0, 0>>
        /\ \A e \in FingerEntries :
              \A other \in SameFirstBytes(e.event) :
                 update_finger_print(finger_print, [e EXCEPT !.event = other])
                    = update_finger_print(finger_print, e)
        /\ \A e \in FingerEntries :
              ~U64_add(Time_as_u64(e.time), U64_from(e.to + FirstBytes(e.event.name))).overflow

\* The finger print went past 2^64 and wrapped, over entries that include a
\* long name that came in on a port with a payload.
C16_Witness ==
    /\ pc = "finger"
    /\ Len(popped) = 3
    /\ Largest(popped) = 2
    /\ finger_print[4] = 0
    /\ \E i \in 1 .. 3 :
          /\ popped[i].event.name = "12345678zz"
          /\ popped[i].event.port_name = "in"
          /\ popped[i].event.payload.some

-----------------------------------------------------------------------------

\* What the handlers of the program "det" answer the entries with, computed
\* without the threads: for every component in ascending order of ID, one
\* answer for each entry it was sent, from the store the pass began with.
RECURSIVE AnswersFrom(_, _)
AnswersFrom(id, entries) ==
    IF id >= Len(event_senders) THEN <<>>
    ELSE LET mine == SelectSeq(entries, LAMBDA e : e.to = id)
             answer == IF event_senders[id + 1] = "thread" THEN Deterministic(id, pass_store)
                       ELSE Effector_new
         IN  [i \in 1 .. Len(mine) |-> <<id, answer>>] \o AnswersFrom(id + 1, entries)

\* A pass is being dispatched.
Dispatching == pc # "collect" /\ pc' = "collect"

\* The scheduler as dispatch_events finds it: an init stage has just scheduled its events.
Found == IF pc = "init" THEN schedule_init_stage(scheduled, stage, 0) ELSE scheduled

\* C15: with handlers that decide by the event and the state they are given,
\* what a pass does is fixed by the state it began in, in whatever order the
\* threads run: the entries it dispatches and their event numbers, the finger
\* print after it (the same for every order in which the heap may give the
\* entries of the instant), the Effectors in the order they are applied, and
\* with them the store, the scheduler, the threads and the lines printed.
C15_Deterministic ==
    [][/\ Dispatching =>
            /\ BagOf(popped') = EntriesAt(Found, current_time')
            /\ event_num' = event_num + Len(popped')
            /\ \A order \in Orders(EntriesAt(Found, current_time')) :
                  dispatch_loop([scheduled |-> Found, popped |-> <<>>, ids |-> <<>>,
                                 event_num |-> event_num, finger_print |-> finger_print,
                                 inbox |-> inbox, error |-> ""], order).finger_print
                     = finger_print'
       /\ Applying =>
            LET answers == AnswersFrom(0, popped)
                k == apply_all(Kernel, answers)
            IN  /\ applied' = answers
                /\ store' = k.store
                /\ scheduled' = k.scheduled
                /\ event_senders' = k.event_senders
                /\ printed' = k.printed
                /\ error' = k.error
                /\ (exited' # "None") = (k.exited # "None")]_vars

\* A pass after the first, of three entries or more, in which the thread of the
\* last entry has answered and the thread of the first has not.
C15_Witness ==
    /\ program = "det"
    /\ pc = "collect"
    /\ current_time > Time(0)
    /\ Len(ids) >= 3
    /\ ~Arrived(1)
    /\ Arrived(Len(ids))
    /\ ids[1] # ids[Len(ids)]

-----------------------------------------------------------------------------

\* The component has no sender: it was added with add_component and no remove
\* has given it the thread that drops everything.
Inactive(id) == event_senders[id + 1] = "None"

\* dispatch_events was entered and popped entries.
Popping == pc \in {"init", "main"} /\ pc' \in {"collect", "fatal"} /\ popped' # <<>>

\* C17: an entry dispatched to a component that was added without a thread and
\* never removed stops the simulation with InactiveTarget: it is the last entry
\* popped, it reaches no channel, and nothing happens after it.  No other
\* dispatch fails that way.
C17_InactiveTargetIsFatal ==
    [][/\ Popping =>
            /\ \A i \in 1 .. Len(popped') :
                  Inactive(popped'[i].to) =>
                      /\ i = Len(popped')
                      /\ error' = "InactiveTarget"
                      /\ pc' = "fatal"
                      /\ inbox'[popped'[i].to + 1] = inbox[popped'[i].to + 1]
            /\ error' = "InactiveTarget" => Inactive(popped'[Len(popped')].to)
       /\ error = "InactiveTarget" => FALSE]_vars

\* An entry for a component without a thread was popped after another of the
\* same instant, and the simulation has stopped with entries left to dispatch.
C17_Witness ==
    /\ pc = "fatal"
    /\ error = "InactiveTarget"
    /\ Len(popped) >= 2
    /\ Inactive(popped[Len(popped)].to)
    /\ ~Heap_is_empty(scheduled)

-----------------------------------------------------------------------------

\* The wait of dispatch_events is over.
WaitOver == pc = "collect" /\ pc' # "collect"

\* The thread the loop waits for never answers, or is gone with nothing left in its channel.
Stalled(i) == worker[ids[i] + 1].status = "stalled" /\ ~Arrived(i)

Gone(i) == worker[ids[i] + 1].status = "dead" /\ ~Arrived(i)

\* C18: the wait for the Effectors of a pass ends, and in one of three ways:
\* every entry has its Effector and they are applied, one for each entry; or
\* the thread of the first entry without one does not answer in time and the
\* simulation stops with WorkerStalled; or that thread has panicked (no arm
\* for the event) or left and the simulation stops with WorkerGone.  Nothing
\* is applied while an Effector is missing.
C18_WaitEnds ==
    /\ [][WaitOver =>
            \/ /\ AllReceived
               /\ Len(applied') = Len(popped)
               /\ \A id \in ComponentIDs(components) :
                     Len(SelectSeq(applied', LAMBDA a : a[1] = id))
                        = Len(SelectSeq(popped, LAMBDA e : e.to = id))
               /\ error' \notin {"WorkerStalled", "WorkerGone"}
            \/ /\ ~AllReceived
               /\ Stalled(Awaited)
               /\ error' = "WorkerStalled"
               /\ pc' = "fatal"
               /\ UNCHANGED <<store, scheduled, applied, event_senders>>
            \/ /\ ~AllReceived
               /\ Gone(Awaited)
               /\ error' = "WorkerGone"
               /\ pc' = "fatal"
               /\ UNCHANGED <<store, scheduled, applied, event_senders>>]_vars
    /\ (pc = "collect") ~> (pc # "collect")

\* The kernel waits for a thread that stalled, after it took the Effector of another.
C18_Witness ==
    /\ pc = "collect"
    /\ Len(ids) >= 2
    /\ Arrived(1)
    /\ ~AllReceived
    /\ Stalled(Awaited)

-----------------------------------------------------------------------------
(* The ports on their own: a handler connects its OutPort, sends through it   *)
(* into its Effector, and the kernel applies the Effector at current_time.    *)

MaxSends == 2

InPorts ==
    {InPort_empty}
        \cup {InPort_new(id) : id \in {0, 1}}
        \cup {InPort_with_port_name(id, port) : id \in {0, 1}, port \in {"upper"}}

PortNames == {"text"}

Payloads == {Some("String", "hi")}

PortTimes == {Time(0), Time(4)}

InitPorts ==
    /\ components = Components_new
    /\ event_senders = <<>>
    /\ effector_receivers = <<>>
    /\ config \in Configs
    /\ program = "basic"
    /\ current_time \in PortTimes
    /\ exited = "None"
    /\ scheduled = EmptyBag
    /\ event_num = 0
    /\ finger_print = U64_from(0)
    /\ store = Store_new
    /\ pc = "ports"
    /\ stage = 0
    /\ ids = <<>>
    /\ inbox = <<>>
    /\ outbox = <<>>
    /\ worker = <<>>
    /\ error = ""
    /\ pass_store = Store_new
    /\ popped = <<>>
    /\ applied = <<>>
    /\ printed = <<>>
    /\ init_log = <<>>
    /\ budget = MaxSends
    /\ writes = <<>>
    /\ ports = Ports_new
    /\ spawned = {}
    /\ edition = U32_from(0)
    /\ returned = NoReturn
    /\ held_event = Event_new("")

\* What the calls on the ports leave alone.
PortsOnly ==
    UNCHANGED <<components, event_senders, effector_receivers, config, program, current_time,
                exited, scheduled, event_num, finger_print, store, stage, ids, inbox, outbox,
                worker, pass_store, popped, applied, printed, init_log, writes, spawned,
                edition, returned, held_event>>

\* out.connect_to(port)
ConnectTo ==
    \E port \in InPorts :
        LET r == OutPort_connect_to(ports.out, port)
        IN  /\ pc = "ports"
            /\ ports' = [ports EXCEPT !.out = r.out,
                                      !.connected = IF r.err = "" THEN port ELSE @,
                                      !.call = [NoCall EXCEPT !.op = "connect_to", !.port = port]]
            /\ error' = r.err
            /\ pc' = IF r.err # "" THEN "fatal" ELSE "ports"
            /\ UNCHANGED budget
            /\ PortsOnly

\* One of the four sends, r what it gave back.
SendThrough(r, call) ==
    /\ pc = "ports"
    /\ budget > 0
    /\ budget' = budget - 1
    /\ ports' = [ports EXCEPT !.effector = r.effector, !.call = call]
    /\ error' = r.err
    /\ pc' = IF r.err # "" THEN "fatal" ELSE "ports"
    /\ PortsOnly

\* out.send(effector, name)
Send ==
    \E name \in PortNames :
        SendThrough(OutPort_send(ports.out, ports.effector, name),
                    [NoCall EXCEPT !.op = "send", !.name = name])

\* out.send_payload(effector, name, payload)
SendPayload ==
    \E name \in PortNames, payload \in Payloads :
        SendThrough(OutPort_send_payload(ports.out, ports.effector, name, payload),
                    [NoCall EXCEPT !.op = "send_payload", !.name = name, !.payload = payload])

\* out.send_after_secs(effector, name, secs)
SendAfterSecs ==
    \E name \in PortNames, secs \in Delays :
        SendThrough(OutPort_send_after_secs(ports.out, ports.effector, name, secs),
                    [NoCall EXCEPT !.op = "send_after_secs", !.name = name, !.secs = secs])

\* out.send_payload_after_secs(effector, name, secs, payload)
SendPayloadAfterSecs ==
    \E name \in PortNames, secs \in Delays, payload \in Payloads :
        SendThrough(OutPort_send_payload_after_secs(ports.out, ports.effector, name, secs, payload),
                    [NoCall EXCEPT !.op = "send_payload_after_secs", !.name = name,
                                   !.payload = payload, !.secs = secs])

\* The handler returns and dispatch_events applies its Effector: apply_events.
ApplyPorts ==
    /\ pc = "ports"
    /\ Len(ports.effector.events) > 0
    /\ scheduled' = apply_events(Kernel, ports.effector.events).scheduled
    /\ ports' = [ports EXCEPT !.effector = Effector_new, !.call = [NoCall EXCEPT !.op = "apply"]]
    /\ UNCHANGED <<components, event_senders, effector_receivers, config, program, current_time,
                   exited, event_num, finger_print, store, pc, stage, ids, inbox, outbox, worker,
                   error, pass_store, popped, applied, printed, init_log, budget, writes, spawned,
                   edition, returned, held_event>>

NextPorts ==
    \/ ConnectTo
    \/ Send
    \/ SendPayload
    \/ SendAfterSecs
    \/ SendPayloadAfterSecs
    \/ ApplyPorts

SpecPorts == InitPorts /\ [][NextPorts]_vars

\* The call that was just made on the ports.
Called(op) == ports'.call.op = op /\ pc = "ports"

\* The entries an Effector's immediate events become, given the InPort the
\* OutPort was connected to when they were sent.
Entry_for(port, name, payload) ==
    ScheduledEvent([name |-> name, port_name |-> port.target_port, payload |-> payload],
                   port.target_id, Time(current_time + 1))

\* C19: an OutPort connected to the InPort of component R with tag g sends
\* name and payload as one event for R with that name, tag and payload, as soon
\* as possible; applied at current_time it is one more scheduled entry, at
\* current_time + 1.  A later connect_to replaces target and tag.
C19_PortRoundTrip ==
    [][/\ Called("connect_to") /\ error' = "" =>
            /\ ports'.out.remote_id = ports'.call.port.target_id
            /\ ports'.out.remote_port = ports'.call.port.target_port
            /\ ports'.connected = ports'.call.port
       /\ Called("send_payload") /\ error' = "" =>
            /\ ports'.effector.events
                  = Append(ports.effector.events,
                           <<ports.connected.target_id,
                             [name |-> ports'.call.name,
                              port_name |-> ports.connected.target_port,
                              payload |-> ports'.call.payload],
                             EPSILON>>)
            /\ apply_events(Kernel, <<ports'.effector.events[Len(ports'.effector.events)]>>).scheduled
                  = scheduled (+) SetToBag({Entry_for(ports.connected, ports'.call.name,
                                                      ports'.call.payload)})
       /\ Called("apply") =>
            scheduled' = scheduled (+) BagOf([i \in 1 .. Len(ports.effector.events) |->
                LET sent == ports.effector.events[i]
                IN  ScheduledEvent(sent[2], sent[1],
                                   IF sent[3] = EPSILON THEN Time(current_time + 1)
                                   ELSE add_secs(sent[3]))])]_vars

\* An OutPort connected a second time, to the port "upper" of another
\* component, sent a payload, and the Effector was applied: the entry is there.
C19_Witness ==
    /\ pc = "ports"
    /\ ports.call.op = "apply"
    /\ ports.connected = InPort_with_port_name(1, "upper")
    /\ \E name \in PortNames, payload \in Payloads :
          /\ Entry_for(InPort_new(0), name, payload) \in BagToSet(scheduled)
          /\ Entry_for(InPort_with_port_name(1, "upper"), name, payload) \in BagToSet(scheduled)

\* C20: an OutPort is created unconnected; each of the four sends through an
\* unconnected OutPort fails with DisconnectedPort and leaves the Effector as
\* it was; connect_to with an empty InPort fails and leaves the OutPort as it
\* was, unconnected if it was.  No send through a connected OutPort fails.
C20_DisconnectedPort ==
    /\ ports.call.op = "new" => ~OutPort_is_connected(ports.out) /\ ports.out.remote_id = NO_COMPONENT
    /\ [][/\ \A op \in {"send", "send_payload", "send_after_secs", "send_payload_after_secs"} :
                Called(op) =>
                    IF OutPort_is_connected(ports.out)
                    THEN error' = "" /\ Len(ports'.effector.events) = Len(ports.effector.events) + 1
                    ELSE /\ error' = "DisconnectedPort"
                         /\ pc' = "fatal"
                         /\ ports'.effector = ports.effector
                         /\ scheduled' = scheduled
          /\ Called("connect_to") /\ ports'.call.port = InPort_empty =>
                /\ error' = "EmptyInPort"
                /\ pc' = "fatal"
                /\ ports'.out = ports.out
                /\ OutPort_is_connected(ports'.out) = OutPort_is_connected(ports.out)
          /\ pc = "fatal" => FALSE]_vars

\* A send after a delay through the OutPort as it was created has failed.
C20_Witness ==
    /\ pc = "fatal"
    /\ error = "DisconnectedPort"
    /\ ports.call.op = "send_after_secs"
    /\ ports.out = OutPort_new
    /\ ports.effector = Effector_new

-----------------------------------------------------------------------------
(* An Event in the hands of a handler, which asks for its payload.  The       *)
(* payload is a Box<Any>: a value with its type.                              *)

EventNames == {"ping", "tick"}

EventPorts == {"", "upper"}

EventPayloads == {Some("i64", "7"), Some("String", "red"), Some("String", "blue")}

\* The types a handler asks for.
PayloadTypes == {"i64", "String", "f64"}

Messages == {"should have a count", "should have text"}

EventsHeld ==
    {Event_new(name) : name \in EventNames}
        \cup {Event_with_port_payload(name, port, payload) :
                 name \in EventNames, port \in EventPorts, payload \in EventPayloads}

InitEvent ==
    /\ components = Components_new
    /\ event_senders = <<>>
    /\ effector_receivers = <<>>
    /\ config = Config(1, INFINITY, 1)
    /\ program = "basic"
    /\ current_time = Time(0)
    /\ exited = "None"
    /\ scheduled = EmptyBag
    /\ event_num = 0
    /\ finger_print = U64_from(0)
    /\ store = Store_new
    /\ pc = "event"
    /\ stage = 0
    /\ ids = <<>>
    /\ inbox = <<>>
    /\ outbox = <<>>
    /\ worker = <<>>
    /\ error = ""
    /\ pass_store = Store_new
    /\ popped = <<>>
    /\ applied = <<>>
    /\ printed = <<>>
    /\ init_log = <<>>
    /\ budget = 0
    /\ writes = <<>>
    /\ ports = Ports_new
    /\ spawned = {}
    /\ edition = U32_from(0)
    /\ returned = NoReturn
    /\ held_event \in EventsHeld

\* A call on the event held: what it leaves of the event, what it returned.
CallOnEvent(op, T, r) ==
    /\ pc = "event"
    /\ held_event' = r.event
    /\ returned' = Returned(op, T, r.value, r.err)
    /\ error' = r.err
    /\ pc' = IF r.err # "" THEN "fatal" ELSE "event"
    /\ UNCHANGED <<components, event_senders, effector_receivers, config, program, current_time,
                   exited, scheduled, event_num, finger_print, store, stage, ids, inbox, outbox,
                   worker, pass_store, popped, applied, printed, init_log, budget, writes, ports,
                   spawned, edition>>

\* Event::payload_ref
PayloadRef ==
    \E T \in PayloadTypes, message \in Messages :
        CallOnEvent("payload_ref", T, Event_payload_ref(held_event, T, message))

\* Event::take_payload
TakePayload ==
    \E T \in PayloadTypes : CallOnEvent("take_payload", T, Event_take_payload(held_event, T))

NextEvent ==
    \/ PayloadRef
    \/ TakePayload

SpecEvent == InitEvent /\ [][NextEvent]_vars

\* The event holds a payload of the type the step's call asked for.
HoldsAsked == held_event.payload.some /\ held_event.payload.type = returned'.key

\* The step's call panicked with a message that begins with the event's name.
PayloadError ==
    /\ pc' = "fatal"
    /\ error' = returned'.err
    /\ returned'.value = <<>>
    /\ \E message \in Messages \cup {""}, why \in {"downcast failed", "missing payload"} :
          error' = PayloadPanic(held_event, message, why)

\* C25: payload_ref::<T> on a payload of type T returns the value and leaves
\* the event as it was, so that it can be called again; take_payload::<T> on
\* a payload of type T returns the value and leaves the event without a
\* payload, and every take_payload and payload_ref after it panics; on an
\* event without a payload, or with one of another type, both always panic,
\* with a message that names the event.
C25_Payload ==
    [][/\ returned'.op = "payload_ref" =>
             /\ held_event' = held_event
             /\ IF HoldsAsked
                THEN error' = "" /\ pc' = "event" /\ returned'.value = <<held_event.payload.value>>
                ELSE PayloadError
       /\ returned'.op = "take_payload" =>
             IF HoldsAsked
             THEN /\ error' = "" /\ pc' = "event"
                  /\ returned'.value = <<held_event.payload.value>>
                  /\ held_event' = [held_event EXCEPT !.payload = NoPayload]
             ELSE PayloadError
       /\ (returned.op = "take_payload" /\ returned.err = "") =>
             /\ ~held_event.payload.some
             /\ PayloadError]_vars

\* An event that was made with a payload has none: take_payload returned it, and
\* the payload_ref after it panicked.
C25_Witness ==
    /\ pc = "fatal"
    /\ returned.op = "payload_ref"
    /\ held_event.port_name = "upper"
    /\ ~held_event.payload.some
    /\ error = PayloadPanic(held_event, "should have a count", "missing payload")

-----------------------------------------------------------------------------
(* The component tree by itself: components are added with any name and any   *)
(* parent, and children are looked for.  A call that panics ends the setup.   *)

MaxTree == 4

\* The names given: two that pass the asserts on a name, an empty one and one
\* with a period in it.
TreeNames == {"a", "b", "", "a.b"}

\* !name.is_empty(), name.chars().nth(0).unwrap().is_alphabetic() and
\* name.chars().all(is_valid_name_char), for the names given.
NameIsValid(name) == name \notin {"", "a.b"}

\* The parents given: none, and ids whether they are in the tree or not.
TreeParents == {NO_COMPONENT} \cup (0 .. MaxTree - 1)

InitTree ==
    /\ components = Components_new
    /\ event_senders = <<>>
    /\ effector_receivers = <<>>
    /\ config = Config(1, INFINITY, 1)
    /\ program = "basic"
    /\ current_time = Time(0)
    /\ exited = "None"
    /\ scheduled = EmptyBag
    /\ event_num = 0
    /\ finger_print = U64_from(0)
    /\ store = Store_new
    /\ pc = "setup"
    /\ stage = 0
    /\ ids = <<>>
    /\ inbox = <<>>
    /\ outbox = <<>>
    /\ worker = <<>>
    /\ error = ""
    /\ pass_store = Store_new
    /\ popped = <<>>
    /\ applied = <<>>
    /\ printed = <<>>
    /\ init_log = <<>>
    /\ budget = 0
    /\ writes = <<>>
    /\ ports = Ports_new
    /\ spawned = {}
    /\ edition = U32_from(0)
    /\ returned = NoReturn
    /\ held_event = Event_new("")

\* What a call on the tree was given: a name and a parent's id, or an id and a
\* predicate.
TreeCall(name, id, predicate) == [name |-> name, id |-> id, predicate |-> predicate]

\* The panic of add_component and add_active_component, "" if they return: their
\* asserts in order, then those of append, which indexes the parent.
AddPanic(cs, name, parent) ==
    IF name = "" THEN "InvalidName"
    ELSE IF ~(parent # NO_COMPONENT \/ Components_is_empty(cs)) THEN "SecondRoot"
    ELSE IF ~NameIsValid(name) THEN "InvalidName"
    ELSE IF parent # NO_COMPONENT /\ parent \notin ComponentIDs(cs) THEN "NoSuchParent"
    ELSE IF parent # NO_COMPONENT /\ ~Components_check_for_dupes(cs, parent, Component(name, parent))
         THEN "DuplicateSibling"
    ELSE ""

\* add_component and add_active_component with any name and parent; sender is
\* what they push, op the one that was called.
AddTo(op, name, parent, sender) ==
    LET panic == AddPanic(components, name, parent)
        id == Len(event_senders)
    IN  /\ pc = "setup"
        /\ Len(components) < MaxTree
        /\ error' = panic
        /\ IF panic # ""
           THEN /\ pc' = "fatal"
                /\ returned' = Returned(op, TreeCall(name, parent, {}), <<>>, panic)
                /\ UNCHANGED <<components, event_senders, effector_receivers, inbox, outbox, worker,
                               init_log, spawned>>
           ELSE /\ pc' = "setup"
                /\ returned' = Returned(op, TreeCall(name, parent, {}), <<id>>, "")
                /\ components' = Components_append(components, id, Component(name, parent), parent)
                /\ event_senders' = Append(event_senders, sender)
                /\ effector_receivers' = Append(effector_receivers, sender)
                /\ inbox' = Append(inbox, <<>>)
                /\ outbox' = Append(outbox, <<>>)
                /\ worker' = Append(worker, IdleWorker)
                /\ init_log' = Append(init_log, <<>>)
                /\ spawned' = IF sender = "thread" THEN spawned \cup {id} ELSE spawned
        /\ UNCHANGED <<config, program, current_time, exited, scheduled, event_num, finger_print,
                       store, stage, ids, pass_store, popped, applied, printed, budget, writes,
                       ports, edition, held_event>>

\* Simulation::add_component
AddComponentTo ==
    \E name \in TreeNames, parent \in TreeParents : AddTo("add_component", name, parent, "None")

\* Simulation::add_active_component
AddActiveComponentTo ==
    \E name \in TreeNames, parent \in TreeParents :
        AddTo("add_active_component", name, parent, "thread")

\* Components::find_child, with any predicate
FindChild ==
    /\ pc = "setup"
    /\ \E id \in ComponentIDs(components), predicate \in SUBSET ComponentIDs(components) :
          returned' = Returned("find_child", TreeCall("", id, predicate),
                               Components_find_child(components, id, predicate), "")
    /\ UNCHANGED <<components, event_senders, effector_receivers, config, program, current_time,
                   exited, scheduled, event_num, finger_print, store, pc, stage, ids, inbox, outbox,
                   worker, error, pass_store, popped, applied, printed, init_log, budget, writes,
                   ports, spawned, edition, held_event>>

NextTree ==
    \/ AddComponentTo
    \/ AddActiveComponentTo
    \/ FindChild

SpecTree == InitTree /\ [][NextTree]_vars

\* The step called add_component or add_active_component.
Adding == returned'.op \in {"add_component", "add_active_component"} /\ pc = "setup"

\* A tree with a component in it has one root, the first; every other
\* component has a parent that was added before it and that lists it among its
\* children; no two children of one parent have one name, and no two
\* components one full path.
TreeIsSound(cs) ==
    Len(cs) > 0 =>
        /\ Cardinality({id \in ComponentIDs(cs) : Components_get(cs, id).parent = NO_COMPONENT}) = 1
        /\ Components_get(cs, 0).parent = NO_COMPONENT
        /\ \A id \in ComponentIDs(cs) \ {0} :
              /\ Components_get(cs, id).parent \in 0 .. id - 1
              /\ \E i \in 1 .. Len(Components_get(cs, Components_get(cs, id).parent).children) :
                    Components_get(cs, Components_get(cs, id).parent).children[i] = id
        /\ \A id, other \in ComponentIDs(cs) :
              id # other =>
                /\ Components_get(cs, id).parent = Components_get(cs, other).parent =>
                      Components_get(cs, id).name # Components_get(cs, other).name
                /\ Components_full_path(cs, id) # Components_full_path(cs, other)

\* C26: after any calls of add_component and add_active_component, those that
\* panicked among them, the tree is sound; a call with NO_COMPONENT for parent
\* (and a name that passes) returns exactly when the tree is empty; a call that
\* panics leaves the tree, the channels and the threads as they were.
C26_Tree ==
    [][/\ components' # components => TreeIsSound(components')
       /\ Adding =>
             /\ (returned'.key.id = NO_COMPONENT /\ NameIsValid(returned'.key.name)) =>
                   (returned'.err = "" <=> Components_is_empty(components))
             /\ returned'.err = "" =>
                   /\ Len(components') = Len(components) + 1
                   /\ returned'.value = <<Len(components)>>
                   /\ SubSeq(components', 1, Len(components))
                         = [i \in 1 .. Len(components) |->
                               IF i = returned'.key.id + 1
                               THEN [components[i] EXCEPT !.children = Append(@, Len(components))]
                               ELSE components[i]]
             /\ returned'.err # "" =>
                   /\ pc' = "fatal"
                   /\ error' = returned'.err
                   /\ UNCHANGED <<components, event_senders, effector_receivers, inbox, outbox,
                                  worker, spawned>>]_vars

\* A component with the name of a child of component 1 was refused as another
\* child of it, in a tree where component 1 has the name of its own child.
C26_Witness ==
    /\ pc = "fatal"
    /\ error = "DuplicateSibling"
    /\ returned.op = "add_active_component"
    /\ Len(components) = 3
    /\ components[2].name = components[3].name
    /\ components[3].parent = 1
    /\ returned.key = TreeCall(components[3].name, 1, {})

\* How many parents up from d the component id is: 0 for d itself, -1 if it is
\* not above d.
RECURSIVE StepsUp(_, _, _)
StepsUp(cs, d, id) ==
    IF d = NO_COMPONENT THEN -1
    ELSE IF d = id THEN 0
    ELSE LET up == StepsUp(cs, Components_get(cs, d).parent, id)
         IN  IF up = -1 THEN -1 ELSE up + 1

\* The components below id that the predicate is true of.
Candidates(cs, id, predicate) == {d \in predicate : StepsUp(cs, d, id) > 0}

\* C30: find_child(id, predicate) returns None exactly when the predicate is
\* true of no component below id; otherwise it returns a component below id,
\* never id, of which the predicate is true and than which none of those is
\* fewer parents away from id.  It leaves the tree as it was.
C30_FindChild ==
    [][returned'.op = "find_child" =>
          LET id == returned'.key.id
              predicate == returned'.key.predicate
              found == returned'.value
              among == Candidates(components, id, predicate)
          IN  /\ components' = components
              /\ found = <<>> <=> among = {}
              /\ found # <<>> =>
                    /\ found[1] \in among
                    /\ found[1] # id
                    /\ \A d \in among : StepsUp(components, found[1], id) <= StepsUp(components, d, id)]_vars

\* The predicate is true of a child of the root and of a grandchild under
\* another child, the one find_child looks at first; the child was found.
C30_Witness ==
    /\ returned.op = "find_child"
    /\ Len(components) = 4
    /\ components[2].parent = 0
    /\ components[3].parent = 0
    /\ components[4].parent = 2
    /\ returned.key = TreeCall("", 0, {1, 3})
    /\ returned.value = <<1>>

-----------------------------------------------------------------------------
(* A timer: one component with a thread, whose process_events! has an arm for *)
(* "init 0", which schedules a "tick" for the component a second later, and   *)
(* one for "tick", which schedules the next and counts in the store.  The     *)
(* thread answers every event in time.                                        *)

TimerConfigs ==
    {Config(time_units, max_secs, 1) :
        time_units \in {1000, 1}, max_secs \in {Secs(1, 0), Secs(2, 0), Secs(3, 0), Secs(5, 1)}}

InitTimer ==
    /\ components = Components_new
    /\ event_senders = <<>>
    /\ effector_receivers = <<>>
    /\ config \in TimerConfigs
    /\ program = "timer"
    /\ current_time = Time(0)
    /\ exited = "None"
    /\ scheduled = EmptyBag
    /\ event_num = 0
    /\ finger_print = U64_from(0)
    /\ store = Store_new
    /\ pc = "setup"
    /\ stage = 0
    /\ ids = <<>>
    /\ inbox = <<>>
    /\ outbox = <<>>
    /\ worker = <<>>
    /\ error = ""
    /\ pass_store = Store_new
    /\ popped = <<>>
    /\ applied = <<>>
    /\ printed = <<>>
    /\ init_log = <<>>
    /\ budget = 0
    /\ writes = <<>>
    /\ ports = Ports_new
    /\ spawned = {}
    /\ edition = U32_from(0)
    /\ returned = NoReturn
    /\ held_event = Event_new("")

\* The arms of the timer's process_events!, for the event and the state the
\* thread took: the Effector they fill.
Timer(self, event, state) ==
    LET key == Components_full_path(components, self) \o ".count"
        previous == IF Store_contains(state, key) THEN Store_get_data(state.int_data, key).value[1]
                    ELSE 0
        again == Effector_schedule_after_secs(Effector_new, Event_new("tick"), self, Secs(1, 0))
    IN  IF event.name = "init 0" THEN again
        ELSE Effector_set_int(again, "count", previous + 1)

\* The one component of the timer is added, with its thread.
AddTimer == Components_is_empty(components) /\ AddActiveComponent

\* The simulation is run once the component is there.
RunTimer == ~Components_is_empty(components) /\ Run

\* process_events!: the thread takes the next (event, state).
TimerReceive(id) ==
    /\ pc # "fatal"
    /\ worker[id + 1].status = "idle"
    /\ Len(inbox[id + 1]) > 0
    /\ held_event' = Head(inbox[id + 1])
    /\ inbox' = [inbox EXCEPT ![id + 1] = Tail(@)]
    /\ worker' = [worker EXCEPT ![id + 1] = [status |-> "busy", holding |-> TRUE, seen |-> store]]
    /\ UNCHANGED <<components, event_senders, effector_receivers, config, program, current_time,
                   exited, scheduled, event_num, finger_print, store, pc, stage, ids, outbox, error,
                   pass_store, popped, applied, printed, init_log, budget, writes, ports, spawned,
                   edition, returned>>

\* The arm returns with the Effector it filled; then drop(state); tx.send(effector).
TimerSend(id) ==
    /\ pc # "fatal"
    /\ worker[id + 1].status = "busy"
    /\ outbox' = [outbox EXCEPT ![id + 1] = Append(@, Timer(id, held_event, worker[id + 1].seen))]
    /\ worker' = [worker EXCEPT ![id + 1] = process_events_sent(@)]
    /\ UNCHANGED <<components, event_senders, effector_receivers, config, program, current_time,
                   exited, scheduled, event_num, finger_print, store, pc, stage, ids, inbox, error,
                   pass_store, popped, applied, printed, init_log, budget, writes, ports, spawned,
                   edition, returned, held_event>>

NextTimer ==
    \/ AddTimer
    \/ RunTimer
    \/ InitStage
    \/ RunTimeSlice
    \/ ApplyEffects
    \/ Exit
    \/ \E id \in ComponentIDs(components) : TimerReceive(id)
    \/ \E id \in ComponentIDs(components) : TimerSend(id)

\* The user calls add_active_component and run, and the kernel thread and the
\* component's thread run: none of them waits for anything but the others.
SpecTimer == InitTimer /\ [][NextTimer]_vars /\ WF_vars(NextTimer)

\* max_secs in ticks, cut to an integer.
TimerMaxTime == (config.max_secs.num * config.time_units) \div (IF config.max_secs.exp = 0 THEN 1 ELSE 2)

\* The first tick that is not before max_time: ticks are time_units apart.
LastTick ==
    CHOOSE k \in 1 .. 8 :
        k * config.time_units >= TimerMaxTime /\ (k - 1) * config.time_units < TimerMaxTime

\* The run is over, for the reason given, and the store holds one entry, the
\* count of the root: the number of the last tick, written at its time.
TimerDone(reason) ==
    /\ pc = "done"
    /\ exited = reason
    /\ DOMAIN store.int_data = {"a.count"}
    /\ store.int_data["a.count"] = Entry(Time(LastTick * config.time_units), LastTick)
    /\ DOMAIN store.float_data = {}
    /\ DOMAIN store.string_data = {}
    /\ config = Config(1000, Secs(3, 0), 1) => store.int_data["a.count"] = Entry(Time(3000), 3)

\* C27 as the specification states it: the run of scenario A ends with the
\* exit reason "reached max_secs" and <root>.count = 3, written at 3000.
C27_AsStated == <>[]TimerDone("reached max_secs")

\* C27, amended: the run of the timer ends, with the exit reason "reached
\* config.max_secs", and the store then holds <root>.count, the number of
\* ticks up to the first at or after max_secs, written at the time of that
\* tick: 3, written at 3000, for time_units = 1000 and max_secs = 3.
C27_ScenarioA == <>[]TimerDone("reached config.max_secs")

\* Scenario A is over: three ticks, the last at 3000.
C27_Witness ==
    /\ pc = "done"
    /\ config = Config(1000, Secs(3, 0), 1)
    /\ exited = "reached config.max_secs"
    /\ current_time = Time(3000)
    /\ store.int_data["a.count"] = Entry(Time(3000), 3)

-----------------------------------------------------------------------------
(* What applying an Effector writes *)

\* The key has an entry after the step that it did not have before it.
Written(kind, key) ==
    /\ key \in DOMAIN store'[kind]
    /\ key \in DOMAIN store[kind] => store'[kind][key] # store[kind][key]

\* The keys of a kind that applying the Effector e of component id may write:
\* the names of its patch under the path of id, and if it removes, the
\* removed key of id and of every component below it.
KeysOf(kind, id, e) ==
    {Components_full_path(components, id) \o "." \o name : name \in DOMAIN e.store[kind]}
        \cup (IF e.removed /\ kind = "int_data" THEN {RemovedKey(d) : d \in Below(id)} ELSE {})

\* C28: the step that applies the Effectors of a pass writes, for each of
\* them that it applies without a panic, every entry of its patch under the
\* path of its component, a period and the entry's name, with current_time for
\* write time whatever time the Effector gave; every entry the step writes is
\* one of these or the removed key of a component that an Effector removed or
\* of a component below it; and the step leaves the component tree as it was.
C28_ApplyFrame ==
    [][Applying =>
          /\ components' = components
          /\ \A kind \in Kinds : \A key \in DOMAIN store'[kind] :
                Written(kind, key) =>
                    /\ store'[kind][key].time = current_time
                    /\ \E i \in 1 .. Len(applied') :
                          key \in KeysOf(kind, applied'[i][1], applied'[i][2])
          /\ \A kind \in Kinds : \A key \in DOMAIN store[kind] : key \in DOMAIN store'[kind]
          /\ error' = "" =>
                \A i \in 1 .. Len(applied') :
                    \A kind \in Kinds : \A name \in DOMAIN applied'[i][2].store[kind] :
                        LET key == Components_full_path(components, applied'[i][1]) \o "." \o name
                        IN  /\ key \in DOMAIN store'[kind]
                            /\ store'[kind][key]
                                  = Entry(current_time, applied'[i][2].store[kind][name].value)]_vars

\* A pass after time 0 applied the Effector of a component with a child: it
\* wrote x and removed the component, and the store holds x and the removed
\* key of the child, written at the time of the pass.
C28_Witness ==
    /\ pc = "main"
    /\ current_time > 0
    /\ \E i \in 1 .. Len(applied) :
          LET id == applied[i][1]
              e == applied[i][2]
          IN  /\ e.removed
              /\ "x" \in DOMAIN e.store.int_data
              /\ e.store.int_data["x"].time = Time(0)
              /\ Len(Components_get(components, id).children) > 0
              /\ store.int_data[Components_full_path(components, id) \o ".x"].time = current_time
              /\ \A d \in Below(id) :
                    /\ RemovedKey(d) \in DOMAIN store.int_data
                    /\ store.int_data[RemovedKey(d)].time = current_time

-----------------------------------------------------------------------------
(* The threads answer every event with one Effector *)

\* The entries the pass dispatched to component c.
DispatchedTo(c) == Cardinality({i \in 1 .. Len(ids) : ids[i] = c})

\* The events a thread has taken and not answered: one while it runs an arm,
\* and the one it stalled or panicked on.
InHand(c) == IF worker[c + 1].status = "idle" THEN 0 ELSE 1

\* While the kernel waits, every entry dispatched to a component is a message
\* in its channel, in the hands of its thread, or an Effector in the channel
\* back.
Conserved ==
    pc = "collect" =>
        \A c \in ComponentIDs(components) :
            DispatchedTo(c) = Len(inbox[c + 1]) + InHand(c) + Len(outbox[c + 1])

\* The Effectors of applied that are attributed to component c, in order.
RECURSIVE AttributedTo(_, _)
AttributedTo(c, effects) ==
    IF Len(effects) = 0 THEN <<>>
    ELSE (IF Head(effects)[1] = c THEN <<Head(effects)[2]>> ELSE <<>>)
            \o AttributedTo(c, Tail(effects))

\* C29: a thread takes the messages of its channel one by one from the head,
\* and answers the one it has taken with exactly one Effector, put at the end
\* of the channel back after it dropped the state; so while the kernel waits
\* every entry it dispatched is a message, in the hands of a thread, or an
\* Effector.  When the kernel applies, it has received from every component
\* as many Effectors as it dispatched entries to it, it attributes to the
\* component exactly the Effectors that component's thread sent, in the order
\* they were sent, and it leaves no message and no Effector in a channel.
C29_WorkerProtocol ==
    [][/\ Conserved'
       /\ \A c \in ComponentIDs(components) :
             /\ (pc' = pc /\ outbox'[c + 1] # outbox[c + 1]) =>
                   /\ Len(outbox'[c + 1]) = Len(outbox[c + 1]) + 1
                   /\ SubSeq(outbox'[c + 1], 1, Len(outbox[c + 1])) = outbox[c + 1]
                   /\ worker[c + 1].status = "busy"
                   /\ worker'[c + 1].status = "idle"
                   /\ ~worker'[c + 1].holding
                   /\ inbox' = inbox
             /\ (pc' = pc /\ inbox'[c + 1] # inbox[c + 1]) =>
                   /\ inbox'[c + 1] = Tail(inbox[c + 1])
                   /\ worker[c + 1].status = "idle"
                   /\ worker'[c + 1].status # "idle"
                   /\ outbox' = outbox
             /\ Applying =>
                   /\ Len(applied') = Len(ids)
                   /\ Len(outbox[c + 1]) = DispatchedTo(c)
                   /\ AttributedTo(c, applied') = outbox[c + 1]
                   /\ outbox'[c + 1] = <<>>
                   /\ inbox'[c + 1] = <<>>]_vars

\* A pass dispatched two entries to one component, whose thread answered them
\* with different Effectors; both were applied, and the channels are empty.
C29_Witness ==
    /\ pc = "main"
    /\ \E i, j \in 1 .. Len(applied) :
          /\ i < j
          /\ applied[i][1] = applied[j][1]
          /\ applied[i][2] # applied[j][2]
    /\ \A c \in ComponentIDs(components) : outbox[c + 1] = <<>> /\ inbox[c + 1] = <<>>

-----------------------------------------------------------------------------
(* An instant is dispatched once *)

\* A step of the main loop that begins a dispatch pass.
MainPassBegins == pc = "main" /\ pc' \in {"collect", "fatal"}

\* C31: after every completed dispatch pass of the main loop every entry left
\* in the scheduler has a time strictly greater than current_time, and
\* current_time strictly increases from one dispatch pass of the main loop to
\* the next, so that no instant is dispatched twice.
C31_InstantOnce ==
    [][/\ MainPassApplied => \A e \in BagToSet(scheduled') : e.time > current_time'
       /\ MainPassBegins =>
             /\ current_time' > current_time
             /\ \A i \in 1 .. Len(popped') : popped'[i].time = current_time'
             /\ (error' = "" => \A e \in BagToSet(scheduled') : e.time > current_time')]_vars

\* The main loop has completed its second pass or a later one, whose handlers
\* scheduled as soon as possible, and an entry waits in the scheduler.
C31_Witness ==
    /\ pc = "main"
    /\ error = ""
    /\ stage = config.num_init_stages
    /\ current_time >= 2
    /\ ~Heap_is_empty(scheduled)
    /\ \E i \in 1 .. Len(applied) :
          \E j \in 1 .. Len(applied[i][2].events) : applied[i][2].events[j][3] = EPSILON

-----------------------------------------------------------------------------
(* max_secs is checked before an instant, against the instant before it *)

\* Configurations with a finite max_secs that a run reaches and passes:
\* max_secs * time_units is 3 ticks, and 2.5 ticks.
MaxConfigs == {Config(2, Secs(3, 1), 1), Config(2, Secs(5, 2), 1)}

InitMax ==
    /\ components = Components_new
    /\ event_senders = <<>>
    /\ effector_receivers = <<>>
    /\ config \in MaxConfigs
    /\ program = "basic"
    /\ current_time = Time(0)
    /\ exited = "None"
    /\ scheduled = EmptyBag
    /\ event_num = 0
    /\ finger_print = U64_from(0)
    /\ store = Store_new
    /\ pc = "setup"
    /\ stage = 0
    /\ ids = <<>>
    /\ inbox = <<>>
    /\ outbox = <<>>
    /\ worker = <<>>
    /\ error = ""
    /\ pass_store = Store_new
    /\ popped = <<>>
    /\ applied = <<>>
    /\ printed = <<>>
    /\ init_log = <<>>
    /\ budget = MaxWork
    /\ writes = <<>>
    /\ ports = Ports_new
    /\ spawned = {}
    /\ edition = U32_from(0)
    /\ returned = NoReturn
    /\ held_event = Event_new("")

SpecMax == InitMax /\ [][Next]_vars

\* The run is in its main loop: initialization is over.
InMainLoop == stage = config.num_init_stages /\ pc \in {"main", "collect", "done", "fatal"}

\* C32: max_secs is checked against the time of the instant before, not of the
\* next one.  A dispatch pass of the main loop begins only when current_time,
\* the time of the pass before it, is below max_secs * time_units, whatever
\* the time of the entries it pops; and once the main loop has dispatched an
\* instant at or after max_secs * time_units no entry is dispatched any more.
\* So at most one instant of the main loop is at or after max_secs * time_units.
C32_MaxSecsLags ==
    [][/\ MainPassBegins => ~ReachedMaxSecs
       /\ (InMainLoop /\ ReachedMaxSecs) =>
             /\ ~MainPassBegins
             /\ UNCHANGED <<current_time, popped, event_num, finger_print>>
             /\ \A c \in DOMAIN inbox : Len(inbox'[c]) <= Len(inbox[c])]_vars

\* The run is over on max_secs after the main loop dispatched an instant past
\* max_secs * time_units, and an entry is left in the scheduler.
C32_Witness ==
    /\ pc = "done"
    /\ exited = "reached config.max_secs"
    /\ Shl(current_time, config.max_secs.exp) > config.max_secs.num * config.time_units
    /\ Len(popped) > 0
    /\ popped[1].time = current_time
    /\ ~Heap_is_empty(scheduled)

-----------------------------------------------------------------------------
(* Termination.  The threads answer every event, and their handlers may go on *)
(* scheduling as long as the run lasts: no budget bounds them.  A run with    *)
(* an infinite max_secs has no last instant; the model lets the handlers of   *)
(* such a run schedule up to MaxTermTime only.                                *)

MaxTermTime == 2

TermConfigs == {Config(1, Secs(2, 0), 1), Config(2, Secs(5, 2), 1), Config(1, INFINITY, 1)}

InitTerm ==
    /\ components = Components_new
    /\ event_senders = <<>>
    /\ effector_receivers = <<>>
    /\ config \in TermConfigs
    /\ program = "term"
    /\ current_time = Time(0)
    /\ exited = "None"
    /\ scheduled = EmptyBag
    /\ event_num = 0
    /\ finger_print = U64_from(0)
    /\ store = Store_new
    /\ pc = "setup"
    /\ stage = 0
    /\ ids = <<>>
    /\ inbox = <<>>
    /\ outbox = <<>>
    /\ worker = <<>>
    /\ error = ""
    /\ pass_store = Store_new
    /\ popped = <<>>
    /\ applied = <<>>
    /\ printed = <<>>
    /\ init_log = <<>>
    /\ budget = 0
    /\ writes = <<>>
    /\ ports = Ports_new
    /\ spawned = {}
    /\ edition = U32_from(0)
    /\ returned = NoReturn
    /\ held_event = Event_new("")

\* The handlers of the program "term": schedule a "tick" for oneself a second
\* later, pass a "ping" on to the next component as soon as possible, exit,
\* or leave the simulation as it is.
TermHandlers(self) ==
    (IF config.max_secs.inf /\ current_time >= MaxTermTime THEN {}
     ELSE {Effector_schedule_after_secs(Effector_new, Event_new("tick"), self, Secs(1, 0)),
           Effector_schedule_immediately(Effector_new, Event_new("ping"),
                                         (self + 1) % Len(components))})
    \cup {Effector_exit(Effector_new), Effector_new}

\* The arm returns with the Effector it filled; then drop(state); tx.send(effector).
TermSend(id) ==
    /\ pc # "fatal"
    /\ worker[id + 1].status = "busy"
    /\ \E effector \in TermHandlers(id) :
          outbox' = [outbox EXCEPT ![id + 1] = Append(@, effector)]
    /\ worker' = [worker EXCEPT ![id + 1] = process_events_sent(@)]
    /\ UNCHANGED <<components, event_senders, effector_receivers, config, program, current_time,
                   exited, scheduled, event_num, finger_print, store, pc, stage, ids, inbox, error,
                   pass_store, popped, applied, printed, init_log, budget, writes, ports, spawned,
                   edition, returned, held_event>>

NextTerm ==
    \/ AddRoot
    \/ AddChild
    \/ Run
    \/ InitStage
    \/ RunTimeSlice
    \/ ApplyEffects
    \/ Exit
    \/ \E id \in ComponentIDs(components) : TimerReceive(id)
    \/ \E id \in ComponentIDs(components) : TermSend(id)

\* The threads run: a thread that can take an event or send its Effector does so
\* sooner or later.
Threads_answer == \E id \in ComponentIDs(components) : TimerReceive(id) \/ TermSend(id)

\* The kernel thread, and the user's thread before it, run as well.  Their steps
\* are the steps that change pc, exited, error or the components, and one of
\* them is enabled exactly when the simulation is being set up, an init stage
\* or a turn of the main loop begins, or a pass has an Effector for every entry:
\* weak fairness of those steps.
Kernel_can == pc \in {"setup", "init", "main"} \/ (pc = "collect" /\ AllReceived)

Kernel_moves == pc' # pc \/ exited' # exited \/ error' # error \/ components' # components

Kernel_runs == []<>(~Kernel_can) \/ []<><<Kernel_moves>>_vars

SpecTerm == InitTerm /\ [][NextTerm]_vars /\ WF_vars(Threads_answer) /\ Kernel_runs

\* The reasons the code gives exited.
ExitReasons == {"no events", "reached config.max_secs", "effector.exit was called",
                "Effector.exit was called during initialization"}

\* The panics of add_component, add_active_component and schedule_init_stage:
\* the simulation was set up wrongly and dispatched nothing.
SetupErrors == {"SecondRoot", "DuplicateSibling", "NoActiveComponent"}

\* An Effector with the exit flag is in a channel, or was applied in the last pass.
ExitCalled ==
    \/ \E c \in DOMAIN outbox : \E i \in 1 .. Len(outbox[c]) : outbox[c][i].exit
    \/ \E i \in 1 .. Len(applied) : applied[i][2].exit

\* The main loop finds the scheduler empty.
RanDry == pc = "main" /\ Heap_is_empty(scheduled)

\* What the two versions of the claim say of a run with an infinite max_secs:
\* exited is set only by a turn that finds the scheduler empty or by a pass
\* that applies an exit, and each of them leads to exited being set.
InfiniteRun ==
    /\ [][(config.max_secs.inf /\ exited = "None" /\ exited' # "None") =>
             \/ RanDry /\ exited' = "no events"
             \/ pc = "collect" /\ \E i \in 1 .. Len(applied') : applied'[i][2].exit]_vars
    /\ (config.max_secs.inf /\ RanDry) ~> (exited # "None")
    /\ (config.max_secs.inf /\ ExitCalled) ~> (exited # "None")

-----------------------------------------------------------------------------
(* Several entries for one component in one instant *)

\* The entries of a sequence of popped entries that are for component c.
RECURSIVE EntriesFor(_, _)
EntriesFor(c, entries) ==
    IF Len(entries) = 0 THEN <<>>
    ELSE (IF Head(entries).to = c THEN <<Head(entries).event>> ELSE <<>>)
         \o EntriesFor(c, Tail(entries))

\* The Effectors of component c among applied effects, in their order.
RECURSIVE EffectorsOf(_, _)
EffectorsOf(c, effects) ==
    IF Len(effects) = 0 THEN <<>>
    ELSE (IF Head(effects)[1] = c THEN <<Head(effects)[2]>> ELSE <<>>)
         \o EffectorsOf(c, Tail(effects))

\* Two Effectors of one component in the batch write different values to one name.
Conflict(effects) ==
    \E i, j \in 1 .. Len(effects) :
        /\ i < j
        /\ effects[i][1] = effects[j][1]
        /\ \E name \in DOMAIN effects[i][2].store.int_data :
              /\ name \in DOMAIN effects[j][2].store.int_data
              /\ effects[i][2].store.int_data[name].value # effects[j][2].store.int_data[name].value

\* C34: when several entries for one component are scheduled at one instant,
\* the pass sends all of them to its thread, in the order it pops them, before
\* it applies anything; whatever the thread takes while the pass collects it
\* takes with the store as it was when the pass began, so the second is not
\* handled against the writes of the first; the Effectors of the component
\* are applied in the order its thread sent them, which is the order of
\* dispatch; and when two of them write different values to one key the
\* pass fails with AlreadySet.
C34_SameInstantSameComponent ==
    [][/\ (pc \in {"init", "main"} /\ pc' = "collect") =>
             /\ store' = store
             /\ \A c \in ComponentIDs(components) :
                   inbox'[c + 1] = inbox[c + 1] \o EntriesFor(c, popped')
       /\ pc' = "collect" =>
             \A c \in DOMAIN worker' :
                worker'[c].holding => worker'[c].seen = pass_store' /\ store' = pass_store'
       /\ (pc = "collect" /\ pc' # "collect" /\ error' \notin {"WorkerStalled", "WorkerGone"}) =>
             /\ \A c \in ComponentIDs(components) :
                   EffectorsOf(c, applied') = SubSeq(outbox[c + 1], 1, Len(EntriesFor(c, popped)))
             /\ Conflict(applied') => error' = "AlreadySet" /\ pc' = "fatal"]_vars

\* A component was sent two entries in one instant and answered them with
\* writes of 1 and of 2 to its x: the pass failed with AlreadySet.
C34_Witness ==
    /\ pc = "fatal"
    /\ error = "AlreadySet"
    /\ \E c \in ComponentIDs(components) :
          /\ Len(EntriesFor(c, popped)) = 2
          /\ EffectorsOf(c, applied) = <<Note(1), Note(2)>>

-----------------------------------------------------------------------------
(* Writes before the main loop.  The user's setup code may call apply and     *)
(* configure between the add calls, with Effectors that write.               *)

MaxSetupWork == 2

\* The Effectors the setup code fills: a write of x, or nothing.
SetupEffectors ==
    {Effector_set_int(Effector_new, name, value) : name \in WriteNames, value \in WriteValues}
    \cup {Effector_new}

InitSetup ==
    /\ components = Components_new
    /\ event_senders = <<>>
    /\ effector_receivers = <<>>
    /\ config = Config(1, Secs(3, 1), 2)
    /\ program = "basic"
    /\ current_time = Time(0)
    /\ exited = "None"
    /\ scheduled = EmptyBag
    /\ event_num = 0
    /\ finger_print = U64_from(0)
    /\ store = Store_new
    /\ pc = "setup"
    /\ stage = 0
    /\ ids = <<>>
    /\ inbox = <<>>
    /\ outbox = <<>>
    /\ worker = <<>>
    /\ error = ""
    /\ pass_store = Store_new
    /\ popped = <<>>
    /\ applied = <<>>
    /\ printed = <<>>
    /\ init_log = <<>>
    /\ budget = MaxSetupWork
    /\ writes = <<>>
    /\ ports = Ports_new
    /\ spawned = {}
    /\ edition = U32_from(0)
    /\ returned = NoReturn
    /\ held_event = Event_new("")

\* The second loop of configure: apply_effects for every component in turn.
RECURSIVE configure_apply(_, _)
configure_apply(k, effects) ==
    IF Len(effects) = 0 \/ k.error # "" THEN k
    ELSE configure_apply(apply_effects(k, Head(effects)[1], Head(effects)[2]), Tail(effects))

\* What the simulation is once apply or configure has returned: k is what
\* applying left.  A panic ends the user's thread.
AppliedAtSetup(k) ==
    /\ store' = k.store
    /\ scheduled' = k.scheduled
    /\ event_senders' = k.event_senders
    /\ effector_receivers' = k.effector_receivers
    /\ inbox' = k.inbox
    /\ outbox' = k.outbox
    /\ worker' = k.worker
    /\ error' = k.error
    /\ printed' = k.printed
    /\ pc' = IF k.error # "" THEN "fatal" ELSE pc

\* What apply and configure share: assert!(!effects.exit), and the Effectors
\* applied one after the other, outside any dispatch pass.
ApplyAtSetup(effects) ==
    /\ pc = "setup"
    /\ budget > 0
    /\ \A i \in 1 .. Len(effects) : ~effects[i][2].exit
    /\ AppliedAtSetup(configure_apply(Kernel, effects))
    /\ applied' = effects
    /\ pass_store' = store
    /\ budget' = budget - 1
    /\ UNCHANGED <<components, config, program, current_time, exited, event_num, finger_print, stage,
                   ids, popped, init_log, writes, ports, spawned, edition, returned, held_event>>

\* Simulation::apply
Apply ==
    \E effects \in {<<<<id, effector>>>> : id \in ComponentIDs(components),
                                          effector \in SetupEffectors \ {Effector_new}} :
        ApplyAtSetup(effects)

\* Simulation::configure: the callback fills an Effector for every component,
\* and they are applied in the order of the components.
Configure ==
    /\ Len(components) > 1
    /\ \E effects \in {[i \in 1 .. Len(components) |-> <<i - 1, callback[i - 1]>>] :
                           callback \in [ComponentIDs(components) -> SetupEffectors]} :
          ApplyAtSetup(effects)

NextSetup ==
    \/ AddRoot
    \/ AddChild
    \/ Apply
    \/ Configure
    \/ Run
    \/ InitStage
    \/ RunTimeSlice
    \/ ReceiveTimeout
    \/ ReceiveDisconnected
    \/ ApplyEffects
    \/ Exit
    \/ \E id \in ComponentIDs(components) : WorkerReceive(id)
    \/ \E id \in ComponentIDs(components) : WorkerSend(id)

SpecSetup == InitSetup /\ [][NextSetup]_vars


\* A step that applies Effectors before the main loop: apply or configure
\* returns or panics, or the pass of an init stage applies what it collected.
AppliesBeforeMain ==
    \/ pc = "setup" /\ budget' < budget
    \/ /\ pc = "collect"
       /\ stage < config.num_init_stages
       /\ pc' # "collect"
       /\ error' \notin {"WorkerStalled", "WorkerGone"}

\* The key of the store an Effector of component id writes name to.
KeyOf(id, name) == Components_full_path(components, id) \o "." \o name

\* An Effector of the batch writes a value to a key that holds another.
Clash(effects) ==
    \E i \in 1 .. Len(effects) :
        \E name \in DOMAIN effects[i][2].store.int_data :
            /\ KeyOf(effects[i][1], name) \in DOMAIN store.int_data
            /\ store.int_data[KeyOf(effects[i][1], name)].value
                  # effects[i][2].store.int_data[name].value

-----------------------------------------------------------------------------
(* A component removed twice in one instant *)

\* Two Effectors of the batch remove, and the second removes what the first
\* did: the same component, or one below it.
RemovedTwice(effects, d) ==
    \E i, j \in 1 .. Len(effects) :
        /\ i < j
        /\ effects[i][2].removed
        /\ effects[j][2].removed
        /\ d \in Below(effects[i][1])
        /\ d \in Below(effects[j][1])

-----------------------------------------------------------------------------
(* Removed components that never had a thread *)

\* A step that begins a dispatch pass, of an init stage or of the main loop.
PassBegins == pc \in {"init", "main"} /\ pc' \in {"collect", "fatal"}

\* C37: the remove cascade gives the drop-all thread to every component of the
\* removed subtree, those added without a thread included.  From then on an
\* entry popped for a component of the subtree is never the reason of
\* InactiveTarget: it is sent to the drop-all thread; and every later init
\* stage k sends "init k" at time 0 to each of them, which the drop-all
\* thread answers with Effector::new().
C37_RemovedAreActive ==
    [][/\ PassApplied =>
             \A i \in 1 .. Len(applied') :
                applied'[i][2].removed =>
                   \A d \in Below(applied'[i][1]) :
                      /\ WasRemoved(store', d)
                      /\ event_senders'[d + 1] = "no_op"
                      /\ effector_receivers'[d + 1] = "no_op"
       /\ \A d \in ComponentIDs(components) :
             WasRemoved(store, d) =>
                /\ event_senders[d + 1] = "no_op"
                /\ PassBegins =>
                      /\ \A i \in 1 .. Len(popped') :
                            popped'[i].to = d =>
                               /\ ~(error' = "InactiveTarget" /\ i = Len(popped'))
                               /\ error' = "" =>
                                     Len(inbox'[d + 1]) = Len(EntriesFor(d, popped'))
                      /\ (pc = "init" /\ error' = "") =>
                            /\ ScheduledEvent(Event_new(InitName(stage)), d, Time(0))
                                  \in {popped'[i] : i \in 1 .. Len(popped')}
                            /\ init_log'[d + 1] = Append(init_log[d + 1], <<InitName(stage), 0>>)
                /\ Answers(d) => outbox'[d + 1][Len(outbox'[d + 1])] = Effector_new]_vars

\* A component added without a thread was removed with its parent in the first
\* init stage; the second sent it "init 1", and the main loop then sent it a
\* "ping", without a panic.
C37_Witness ==
    /\ pc = "collect"
    /\ error = ""
    /\ current_time > 0
    /\ \E d \in ComponentIDs(components) \ spawned :
          /\ WasRemoved(store, d)
          /\ init_log[d + 1] = <<(<<"init 1", 0>>)>>
          /\ \E i \in 1 .. Len(popped) : popped[i].to = d /\ popped[i].event.name = "ping"

-----------------------------------------------------------------------------
(* A pass that fails before it applies *)

\* The panics of the first two loops of dispatch_events.
DispatchErrors == {"InactiveTarget", "WorkerStalled", "WorkerGone"}

\* The scheduler a pass begins with: an init stage first schedules its events.
HeapAtBegin == IF pc = "init" THEN schedule_init_stage(scheduled, stage, 0) ELSE scheduled

\* C38: a fatal error raised while the pass dispatches or collects
\* (InactiveTarget, WorkerStalled, WorkerGone) comes before any Effector of
\* the instant is applied.  The failing step leaves the store, exited and
\* the channels of every component (and so the removed components) as they
\* were, and while the pass collects nothing changes them either: at the
\* failure the store is the store the pass began with, and the scheduler is
\* what the pass began with less the entries it popped, so none of the events
\* the threads scheduled in the instant is in it.
C38_FailsBeforeApply ==
    [][/\ (error = "" /\ error' \in DispatchErrors) =>
             /\ pc \in {"init", "main", "collect"}
             /\ pc' = "fatal"
             /\ UNCHANGED <<store, exited, event_senders, effector_receivers, applied, printed>>
             /\ store' = pass_store'
             /\ pc = "collect" => UNCHANGED <<scheduled, popped>>
             /\ pc # "collect" => scheduled' (+) BagOf(popped') = HeapAtBegin
       /\ (pc = "collect" /\ pc' \in {"collect", "fatal"} /\ error' \in DispatchErrors \cup {""}) =>
             UNCHANGED <<store, exited, event_senders, effector_receivers, scheduled, popped,
                         pass_store>>
       /\ error \in DispatchErrors => UNCHANGED vars]_vars

\* A pass of the main loop failed because a thread was gone, after another
\* thread of the same instant had sent an Effector that is not empty: the
\* store is the store the pass began with, written in an earlier pass.
C38_Witness ==
    /\ pc = "fatal"
    /\ error = "WorkerGone"
    /\ current_time > 0
    /\ store = pass_store
    /\ Len(popped) >= 2
    /\ \E c \in DOMAIN outbox :
          /\ Len(outbox[c]) > 0
          /\ outbox[c][1] # Effector_new

-----------------------------------------------------------------------------
(* The times of the store's entries *)

\* Every entry of the store was written at or before the time given.
WrittenBy(st, time) == \A key \in DOMAIN st.int_data : st.int_data[key].time <= time

\* C39: in every state of a run every entry of the kernel's store has a
\* write time at or before current_time, and the write time recorded for a
\* key never decreases: every step keeps the keys the store had, each with
\* the time it had or a later one.
C39_WriteTimes ==
    [][/\ WrittenBy(store, current_time)
       /\ WrittenBy(store', current_time')
       /\ current_time' >= current_time
       /\ \A key \in DOMAIN store.int_data :
             /\ key \in DOMAIN store'.int_data
             /\ store'.int_data[key].time >= store.int_data[key].time]_vars

\* A pass of the main loop has overwritten, with another value, an entry that
\* was written at an earlier instant: the entry now has the time of the pass.
C39_Witness ==
    /\ pc = "main"
    /\ error = ""
    /\ current_time > 0
    /\ \E key \in DOMAIN pass_store.int_data :
          /\ pass_store.int_data[key].time < current_time
          /\ store.int_data[key].time = current_time
          /\ store.int_data[key].value # pass_store.int_data[key].value

-----------------------------------------------------------------------------
(* The finger print and the order of pop *)

\* update_finger_print over the entries of an instant, in the order given.
RECURSIVE FingerPrintOver(_, _)
FingerPrintOver(fp, order) ==
    IF Len(order) = 0 THEN fp
    ELSE FingerPrintOver(update_finger_print(fp, Head(order)), Tail(order))

\* The finger prints a pass may begin with: the one it has, and two that the
\* entries of the pass take past 2^64.
StartingPrints == {finger_print, <<65535, 65535, 65535, 65535>>, <<65400, 65535, 65535, 65535>>}

\* What the first loop of dispatch_events begins with, on the scheduler heap.
LoopBegins(heap) ==
    [scheduled |-> heap, popped |-> <<>>, ids |-> <<>>, event_num |-> event_num,
     finger_print |-> finger_print, inbox |-> inbox, error |-> ""]

\* C40: the finger print and event_num do not depend on the order in which
\* pop returns the entries of one instant.  Whatever the order of the entries
\* that share the time of the pass, the first loop of dispatch_events that
\* sends them all ends with the finger print and the event_num the pass has,
\* with the same entries left in the scheduler; event_num grows by one for
\* every entry the loop takes, is 0 until the first pass and changes in no
\* other step; and the finger print over the entries is the same in every
\* order also where the sum wraps.  A loop that panics on an entry for a
\* component without a sender panics in every order.
C40_PopOrder ==
    [][/\ (PassBegins /\ popped' # <<>>) =>
             \A order \in Orders(EntriesAt(HeapAtBegin, current_time')) :
                 LET d == dispatch_loop(LoopBegins(HeapAtBegin), order)
                 IN  /\ d.event_num = event_num + Len(d.popped)
                     /\ (d.error = "") = (error' = "")
                     /\ error' = "" =>
                           /\ d.finger_print = finger_print'
                           /\ d.event_num = event_num'
                           /\ event_num' = event_num + Len(order)
                           /\ d.scheduled = scheduled'
                           /\ BagOf(d.popped) = BagOf(popped')
                           /\ \A fp \in StartingPrints :
                                 FingerPrintOver(fp, order) = FingerPrintOver(fp, popped')
       /\ ~PassBegins => UNCHANGED <<event_num, finger_print>>
       /\ pc = "setup" => event_num = 0 /\ finger_print = U64_from(0)]_vars

\* A pass of the main loop has sent three entries, for two components and
\* with two names, after the entries of earlier passes.
C40_Witness ==
    /\ pc = "collect"
    /\ current_time > 0
    /\ Len(popped) >= 3
    /\ event_num > Len(popped)
    /\ \E i, j \in 1 .. Len(popped) : popped[i].to # popped[j].to
    /\ \E i, j \in 1 .. Len(popped) : popped[i].event.name # popped[j].event.name
====
